---- MODULE Spec2Model ----
(***************************************************************************)
(* Model of the hand-written logic of the ueye-sys binding crate: the      *)
(* version helpers of meta.rs, the manual PartialEq / Clone impls written  *)
(* around structs with reserved bytes, the build script's target dispatch, *)
(* to_wide and the From<bool> conversions.                                 *)
(*                                                                         *)
(* Every operation is a pure function (or a program run once, build.rs).   *)
(* A behaviour is one call: Init draws the callee and its inputs, the      *)
(* callee's action computes the result and moves pc from "ready" to        *)
(* "done".                                                                 *)
(***************************************************************************)
EXTENDS Integers, Sequences, FiniteSets, TLC

VARIABLES pc, call, args, ret

vars == <<pc, call, args, ret>>

\* Largest small value tried in a numeric field (besides the extremes).
MaxField == 1

\* Longest string given to to_wide.
MaxStrLen == 3

NoRet == <<>>

-----------------------------------------------------------------------------
(* Fixed-width integers                                                    *)

RECURSIVE Pow2(_)
Pow2(n) == IF n = 0 THEN 1 ELSE 2 * Pow2(n - 1)

\* c_int is 32-bit two's complement; its values are the integers
\* INT_MIN..INT_MAX, which are exactly the integers TLC computes with.
INT_MAX == (Pow2(30) - 1) + Pow2(30)
INT_MIN == (-INT_MAX) - 1

\* `>>` on a signed integer: arithmetic shift (floor division).
Shr(x, n) == x \div Pow2(n)

\* `&` on signed integers: bitwise on the two's complement patterns, whose
\* sign bit extends to the left without end (-1 is all ones).
RECURSIVE BitAnd(_, _)
BitAnd(x, y) ==
    IF x = 0 \/ y = 0 THEN 0
    ELSE IF x = -1 THEN y
    ELSE IF y = -1 THEN x
    ELSE (IF x % 2 = 1 /\ y % 2 = 1 THEN 1 ELSE 0) + 2 * BitAnd(x \div 2, y \div 2)

-----------------------------------------------------------------------------
(* Strings are sequences of one-character strings.                         *)

Digits == <<"0", "1", "2", "3", "4", "5", "6", "7", "8", "9">>

RECURSIVE DisplayNat(_)
DisplayNat(n) ==
    IF n < 10 THEN <<Digits[n + 1]>>
    ELSE DisplayNat(n \div 10) \o <<Digits[(n % 10) + 1]>>

\* core::fmt::Display for i32, as used by `{x}` in format!.
DisplayINT(x) == IF x < 0 THEN <<"-">> \o DisplayNat(-x) ELSE DisplayNat(x)

-----------------------------------------------------------------------------
(* meta.rs                                                                 *)

split_version_nomask(version) ==
    <<Shr(version, 24), Shr(version, 16), BitAnd(version, 65535)>>

split_version(version) ==
    <<BitAnd(Shr(version, 24), 255), BitAnd(Shr(version, 16), 255), BitAnd(version, 65535)>>

get_version_string_reversed(version) ==
    LET parts == split_version(version)
    IN  DisplayINT(parts[3]) \o <<".">> \o DisplayINT(parts[2]) \o <<".">> \o DisplayINT(parts[1])

get_version_string(version) ==
    LET parts == split_version(version)
        major == parts[1]
        minor == parts[2]
        build == parts[3]
    IN  DisplayINT(major) \o <<".">> \o DisplayINT(minor) \o <<".">> \o DisplayINT(build)

\* Version numbers tried: every mix of sample components, and the extremes.
MajorSamples == {0, 4, 127, 128, 255} \cup (1..MaxField)
MinorSamples == {0, 96, 255}
BuildSamples == {0, 9, 3985, 32768, 65535}
ExampleVersion == 73404305

Versions ==
    { (IF ma >= 128 THEN ma - 256 ELSE ma) * Pow2(24) + mi * Pow2(16) + b :
        ma \in MajorSamples, mi \in MinorSamples, b \in BuildSamples }
    \cup {ExampleVersion, INT_MIN, INT_MAX, -1}

InitSplitVersion == call = "split_version" /\ args \in {<<v>> : v \in Versions}

SplitVersion ==
    /\ pc = "ready" /\ call = "split_version"
    /\ ret' = split_version(args[1])
    /\ pc' = "done"
    /\ UNCHANGED <<call, args>>

InitGetVersionString == call = "get_version_string" /\ args \in {<<v>> : v \in Versions}

GetVersionString ==
    /\ pc = "ready" /\ call = "get_version_string"
    /\ ret' = get_version_string(args[1])
    /\ pc' = "done"
    /\ UNCHANGED <<call, args>>

-----------------------------------------------------------------------------
(* Sample values of the C types                                            *)

\* An array of n bytes, all b.
Fill(n, b) == [i \in 1..n |-> b]

\* Contents tried for an array of n bytes: all zero, all ones, and a single
\* byte set at either end.
ByteArrays(n) ==
    {Fill(n, 0), Fill(n, 255), [Fill(n, 0) EXCEPT ![1] = 1], [Fill(n, 0) EXCEPT ![n] = 1]}

\* Values tried besides 0 in an INT, a UINT / DWORD, a WORD, a BYTE and a
\* double (a double stands for its bit pattern). The largest UINT tried is
\* INT_MAX: the operations modelled here copy and compare such fields, and
\* do no arithmetic on them.
IntAlt == {-1, INT_MAX} \cup (1..MaxField)
UIntAlt == {INT_MAX} \cup (1..MaxField)
WordAlt == {65535} \cup (1..MaxField)
ByteAlt == {255} \cup (1..MaxField)
DoubleAlt == 1..MaxField

\* base, and base with one field f replaced by a value of alt[f].
Variants(base, alt) ==
    {base} \cup UNION {{[base EXCEPT ![f] = v] : v \in alt[f]} : f \in DOMAIN alt}

\* Every value of xs with its reserved field fld set to every content of rs.
WithReserved(xs, fld, rs) == {[x EXCEPT ![fld] = r] : x \in xs, r \in rs}

\* What MaybeUninit::uninit().assume_init() may hold: the memory is not
\* initialised, so every byte holds whatever was there. Tried: every field
\* holding the same junk j, for each j of UninitFills.
UninitFills == {0, 255} \cup (1..MaxField)

-----------------------------------------------------------------------------
(* types/range.rs, image_buffer.rs, auto_parameter.rs                      *)

IS_RANGE_S32_Zero == [s32Min |-> 0, s32Max |-> 0, s32Inc |-> 0]

IS_RANGE_S32_Samples ==
    Variants(IS_RANGE_S32_Zero, [s32Min |-> IntAlt, s32Max |-> IntAlt, s32Inc |-> IntAlt])

\* #[derive(PartialEq)] on IS_RANGE_S32
IS_RANGE_S32_eq(self, other) ==
    /\ self.s32Min = other.s32Min
    /\ self.s32Max = other.s32Max
    /\ self.s32Inc = other.s32Inc

ID_RANGE_Zero == [s32First |-> 0, s32Last |-> 0]

ID_RANGE_Samples == Variants(ID_RANGE_Zero, [s32First |-> IntAlt, s32Last |-> IntAlt])

\* #[derive(PartialEq)] on ID_RANGE
ID_RANGE_eq(self, other) ==
    /\ self.s32First = other.s32First
    /\ self.s32Last = other.s32Last

IMGBUF_RESERVED_LEN == 52

IMGBUF_ITERATION_INFO_Zero ==
    [u32IterationID |-> 0, rangeImageID |-> ID_RANGE_Zero,
     bReserved |-> Fill(IMGBUF_RESERVED_LEN, 0)]

IMGBUF_ITERATION_INFO_Samples ==
    WithReserved(
        Variants(IMGBUF_ITERATION_INFO_Zero,
                 [u32IterationID |-> UIntAlt, rangeImageID |-> ID_RANGE_Samples]),
        "bReserved", ByteArrays(IMGBUF_RESERVED_LEN))

IMGBUF_ITERATION_INFO_eq_derived(self, other) ==
    /\ self.u32IterationID = other.u32IterationID
    /\ ID_RANGE_eq(self.rangeImageID, other.rangeImageID)
    /\ self.bReserved = other.bReserved

IMGBUF_ITERATION_INFO_eq(self, other) ==
    /\ self.u32IterationID = other.u32IterationID
    /\ ID_RANGE_eq(self.rangeImageID, other.rangeImageID)

IMGBUF_ITERATION_INFO_Uninit ==
    { [u32IterationID |-> j, rangeImageID |-> [s32First |-> j, s32Last |-> j],
       bReserved |-> Fill(IMGBUF_RESERVED_LEN, j)] : j \in UninitFills }

\* `other` starts as uninitialised memory and gets the two assignments.
IMGBUF_ITERATION_INFO_clone(self, uninit) ==
    [uninit EXCEPT !.u32IterationID = self.u32IterationID,
                   !.rangeImageID = self.rangeImageID]

AES_PEAK_WHITE_RESERVED_LEN == 32

AES_PEAK_WHITE_CONFIGURATION_RANGE_Zero ==
    [rangeFrameSkip |-> IS_RANGE_S32_Zero, rangeHysteresis |-> IS_RANGE_S32_Zero,
     rangeReference |-> IS_RANGE_S32_Zero,
     reserved |-> Fill(AES_PEAK_WHITE_RESERVED_LEN, 0)]

AES_PEAK_WHITE_CONFIGURATION_RANGE_Samples ==
    WithReserved(
        Variants(AES_PEAK_WHITE_CONFIGURATION_RANGE_Zero,
                 [rangeFrameSkip |-> IS_RANGE_S32_Samples,
                  rangeHysteresis |-> IS_RANGE_S32_Samples,
                  rangeReference |-> IS_RANGE_S32_Samples]),
        "reserved", ByteArrays(AES_PEAK_WHITE_RESERVED_LEN))

AES_PEAK_WHITE_CONFIGURATION_RANGE_eq(self, other) ==
    /\ IS_RANGE_S32_eq(self.rangeFrameSkip, other.rangeFrameSkip)
    /\ IS_RANGE_S32_eq(self.rangeHysteresis, other.rangeHysteresis)
    /\ IS_RANGE_S32_eq(self.rangeReference, other.rangeReference)

AES_PEAK_WHITE_CONFIGURATION_RANGE_Uninit ==
    { [rangeFrameSkip |-> [s32Min |-> j, s32Max |-> j, s32Inc |-> j],
       rangeHysteresis |-> [s32Min |-> j, s32Max |-> j, s32Inc |-> j],
       rangeReference |-> [s32Min |-> j, s32Max |-> j, s32Inc |-> j],
       reserved |-> Fill(AES_PEAK_WHITE_RESERVED_LEN, j)] : j \in UninitFills }

AES_PEAK_WHITE_CONFIGURATION_RANGE_clone(self, uninit) ==
    [uninit EXCEPT !.rangeFrameSkip = self.rangeFrameSkip,
                   !.rangeHysteresis = self.rangeHysteresis,
                   !.rangeReference = self.rangeReference]

Pairs(xs) == {<<a, b>> : a \in xs, b \in xs}

InitImgbufIterationInfoEq ==
    call = "IMGBUF_ITERATION_INFO::eq" /\ args \in Pairs(IMGBUF_ITERATION_INFO_Samples)

ImgbufIterationInfoEq ==
    /\ pc = "ready" /\ call = "IMGBUF_ITERATION_INFO::eq"
    /\ ret' = IMGBUF_ITERATION_INFO_eq(args[1], args[2])
    /\ pc' = "done"
    /\ UNCHANGED <<call, args>>

InitAesPeakWhiteRangeEq ==
    /\ call = "AES_PEAK_WHITE_CONFIGURATION_RANGE::eq"
    /\ args \in Pairs(AES_PEAK_WHITE_CONFIGURATION_RANGE_Samples)

AesPeakWhiteRangeEq ==
    /\ pc = "ready" /\ call = "AES_PEAK_WHITE_CONFIGURATION_RANGE::eq"
    /\ ret' = AES_PEAK_WHITE_CONFIGURATION_RANGE_eq(args[1], args[2])
    /\ pc' = "done"
    /\ UNCHANGED <<call, args>>

InitImgbufIterationInfoClone ==
    /\ call = "IMGBUF_ITERATION_INFO::clone"
    /\ args \in {<<x>> : x \in IMGBUF_ITERATION_INFO_Samples}

ImgbufIterationInfoClone ==
    /\ pc = "ready" /\ call = "IMGBUF_ITERATION_INFO::clone"
    /\ \E uninit \in IMGBUF_ITERATION_INFO_Uninit :
           ret' = IMGBUF_ITERATION_INFO_clone(args[1], uninit)
    /\ pc' = "done"
    /\ UNCHANGED <<call, args>>

InitAesPeakWhiteRangeClone ==
    /\ call = "AES_PEAK_WHITE_CONFIGURATION_RANGE::clone"
    /\ args \in {<<x>> : x \in AES_PEAK_WHITE_CONFIGURATION_RANGE_Samples}

AesPeakWhiteRangeClone ==
    /\ pc = "ready" /\ call = "AES_PEAK_WHITE_CONFIGURATION_RANGE::clone"
    /\ \E uninit \in AES_PEAK_WHITE_CONFIGURATION_RANGE_Uninit :
           ret' = AES_PEAK_WHITE_CONFIGURATION_RANGE_clone(args[1], uninit)
    /\ pc' = "done"
    /\ UNCHANGED <<call, args>>

-----------------------------------------------------------------------------
(* eth.rs                                                                  *)

\* The four bytes of the union UEYE_ETH_ADDR_IPV4, as its `by` member
\* (UEYE_ETH_ADDR_IPV4_by) shows them; dwAddr is the same storage.
UEYE_ETH_ADDR_IPV4_Zero == [by1 |-> 0, by2 |-> 0, by3 |-> 0, by4 |-> 0]

UEYE_ETH_ADDR_IPV4_Samples ==
    Variants(UEYE_ETH_ADDR_IPV4_Zero,
             [by1 |-> ByteAlt, by2 |-> ByteAlt, by3 |-> ByteAlt, by4 |-> ByteAlt])

UEYE_ETH_ADDR_IPV4_by_eq(self, other) ==
    /\ self.by1 = other.by1
    /\ self.by2 = other.by2
    /\ self.by3 = other.by3
    /\ self.by4 = other.by4

\* Reads the `by` member of both unions and compares those.
UEYE_ETH_ADDR_IPV4_eq(self, other) == UEYE_ETH_ADDR_IPV4_by_eq(self, other)

MAC_LEN == 6

UEYE_ETH_ADDR_MAC_Zero == [abyOctet |-> Fill(MAC_LEN, 0)]

UEYE_ETH_ADDR_MAC_Samples == {[abyOctet |-> o] : o \in ByteArrays(MAC_LEN)}

\* #[derive(PartialEq)] on UEYE_ETH_ADDR_MAC
UEYE_ETH_ADDR_MAC_eq(self, other) == self.abyOctet = other.abyOctet

IP_CONFIGURATION_RESERVED_LEN == 4

UEYE_ETH_IP_CONFIGURATION_Zero ==
    [ipAddress |-> UEYE_ETH_ADDR_IPV4_Zero, ipSubnetmask |-> UEYE_ETH_ADDR_IPV4_Zero,
     reserved |-> Fill(IP_CONFIGURATION_RESERVED_LEN, 0)]

UEYE_ETH_IP_CONFIGURATION_Samples ==
    WithReserved(
        Variants(UEYE_ETH_IP_CONFIGURATION_Zero,
                 [ipAddress |-> UEYE_ETH_ADDR_IPV4_Samples,
                  ipSubnetmask |-> UEYE_ETH_ADDR_IPV4_Samples]),
        "reserved", ByteArrays(IP_CONFIGURATION_RESERVED_LEN))

UEYE_ETH_IP_CONFIGURATION_eq_address_only(self, other) ==
    UEYE_ETH_ADDR_IPV4_eq(self.ipAddress, other.ipAddress)

UEYE_ETH_IP_CONFIGURATION_eq(self, other) ==
    /\ UEYE_ETH_ADDR_IPV4_eq(self.ipAddress, other.ipAddress)
    /\ UEYE_ETH_ADDR_IPV4_eq(self.ipSubnetmask, other.ipSubnetmask)

AUTOCFG_IP_SETUP_RESERVED_LEN == 4

UEYE_ETH_AUTOCFG_IP_SETUP_Zero ==
    [ipAutoCfgIpRangeBegin |-> UEYE_ETH_ADDR_IPV4_Zero,
     ipAutoCfgIpRangeEnd |-> UEYE_ETH_ADDR_IPV4_Zero,
     reserved |-> Fill(AUTOCFG_IP_SETUP_RESERVED_LEN, 0)]

UEYE_ETH_AUTOCFG_IP_SETUP_Samples ==
    WithReserved(
        Variants(UEYE_ETH_AUTOCFG_IP_SETUP_Zero,
                 [ipAutoCfgIpRangeBegin |-> UEYE_ETH_ADDR_IPV4_Samples,
                  ipAutoCfgIpRangeEnd |-> UEYE_ETH_ADDR_IPV4_Samples]),
        "reserved", ByteArrays(AUTOCFG_IP_SETUP_RESERVED_LEN))

UEYE_ETH_AUTOCFG_IP_SETUP_eq(self, other) ==
    /\ UEYE_ETH_ADDR_IPV4_eq(self.ipAutoCfgIpRangeBegin, other.ipAutoCfgIpRangeBegin)
    /\ UEYE_ETH_ADDR_IPV4_eq(self.ipAutoCfgIpRangeEnd, other.ipAutoCfgIpRangeEnd)

\* Variants of the enum UEYE_ETH_CONTROLSTATUS that are tried (an enum
\* value is its variant; the derived == compares variants).
UEYE_ETH_CONTROLSTATUS_Samples ==
    {"IS_ETH_CTRLSTATUS_AVAILABLE", "IS_ETH_CTRLSTATUS_ACCESSIBLE1",
     "IS_ETH_CTRLSTATUS_TO_BE_REMOVED"}

CONTROL_RESERVED_1_LEN == 80
CONTROL_RESERVED_2_LEN == 64

UEYE_ETH_DEVICE_INFO_CONTROL_Zero ==
    [dwDeviceID |-> 0, dwControlStatus |-> "IS_ETH_CTRLSTATUS_AVAILABLE",
     reserved_1 |-> Fill(CONTROL_RESERVED_1_LEN, 0),
     reserved_2 |-> Fill(CONTROL_RESERVED_2_LEN, 0)]

UEYE_ETH_DEVICE_INFO_CONTROL_Samples ==
    WithReserved(
        WithReserved(
            Variants(UEYE_ETH_DEVICE_INFO_CONTROL_Zero,
                     [dwDeviceID |-> UIntAlt,
                      dwControlStatus |-> UEYE_ETH_CONTROLSTATUS_Samples]),
            "reserved_1", ByteArrays(CONTROL_RESERVED_1_LEN)),
        "reserved_2", ByteArrays(CONTROL_RESERVED_2_LEN))

UEYE_ETH_DEVICE_INFO_CONTROL_eq(self, other) ==
    LET dwDeviceID_aligned == self.dwDeviceID
        dwControlStatus_aligned == self.dwControlStatus
        other_dwDeviceID_aligned == other.dwDeviceID
        other_dwControlStatus_aligned == other.dwControlStatus
    IN  /\ dwDeviceID_aligned = other_dwDeviceID_aligned
        /\ dwControlStatus_aligned = other_dwControlStatus_aligned

\* Variants of the enum UEYE_ETH_DEVICESTATUS that are tried.
UEYE_ETH_DEVICESTATUS_Samples ==
    {"IS_ETH_DEVSTATUS_READY_TO_OPERATE", "IS_ETH_DEVSTATUS_TESTING_IP_CURRENT",
     "IS_ETH_DEVSTATUS_TESTING_IP_PERSISTENT"}

SERIAL_NUMBER_LEN == 12
USER_SPACE_LEN == 8
HEARTBEAT_RESERVED_1_LEN == 2
HEARTBEAT_RESERVED_2_LEN == 4
HEARTBEAT_RESERVED_4_LEN == 2
HEARTBEAT_RESERVED_5_LEN == 84
HEARTBEAT_RESERVED_6_LEN == 64

UEYE_ETH_DEVICE_INFO_HEARTBEAT_Zero ==
    [abySerialNumber |-> Fill(SERIAL_NUMBER_LEN, 0),
     byDeviceType |-> 0,
     byCameraID |-> 0,
     wSensorID |-> 0,
     wSizeImgMem_MB |-> 0,
     reserved_1 |-> Fill(HEARTBEAT_RESERVED_1_LEN, 0),
     dwVerStarterFirmware |-> 0,
     dwVerRuntimeFirmware |-> 0,
     dwStatus |-> "IS_ETH_DEVSTATUS_READY_TO_OPERATE",
     reserved_2 |-> Fill(HEARTBEAT_RESERVED_2_LEN, 0),
     wTemperature |-> 0,
     wLinkSpeed_Mb |-> 0,
     macDevice |-> UEYE_ETH_ADDR_MAC_Zero,
     wComportOffset |-> 0,
     ipcfgPersistentIpCfg |-> UEYE_ETH_IP_CONFIGURATION_Zero,
     ipcfgCurrentIpCfg |-> UEYE_ETH_IP_CONFIGURATION_Zero,
     macPairedHost |-> UEYE_ETH_ADDR_MAC_Zero,
     reserved_4 |-> Fill(HEARTBEAT_RESERVED_4_LEN, 0),
     ipPairedHostIp |-> UEYE_ETH_ADDR_IPV4_Zero,
     ipAutoCfgIpRangeBegin |-> UEYE_ETH_ADDR_IPV4_Zero,
     ipAutoCfgIpRangeEnd |-> UEYE_ETH_ADDR_IPV4_Zero,
     abyUserSpace |-> Fill(USER_SPACE_LEN, 0),
     reserved_5 |-> Fill(HEARTBEAT_RESERVED_5_LEN, 0),
     reserved_6 |-> Fill(HEARTBEAT_RESERVED_6_LEN, 0)]

\* Addresses and IP configurations tried inside a heartbeat: a change of the
\* first and of the last byte, of either member, and of the configuration's
\* own reserved bytes.
HeartbeatIpv4Alt ==
    {[UEYE_ETH_ADDR_IPV4_Zero EXCEPT !.by1 = b] : b \in ByteAlt}
    \cup {[UEYE_ETH_ADDR_IPV4_Zero EXCEPT !.by4 = 1]}

HeartbeatIpCfgAlt ==
    {[UEYE_ETH_IP_CONFIGURATION_Zero EXCEPT !.ipAddress = a] : a \in HeartbeatIpv4Alt}
    \cup {[UEYE_ETH_IP_CONFIGURATION_Zero EXCEPT !.ipSubnetmask = a] : a \in HeartbeatIpv4Alt}
    \cup {[UEYE_ETH_IP_CONFIGURATION_Zero EXCEPT !.reserved = r] :
            r \in ByteArrays(IP_CONFIGURATION_RESERVED_LEN)}

HeartbeatFieldAlt ==
    [abySerialNumber |-> ByteArrays(SERIAL_NUMBER_LEN),
     byDeviceType |-> ByteAlt,
     byCameraID |-> ByteAlt,
     wSensorID |-> WordAlt,
     wSizeImgMem_MB |-> WordAlt,
     dwVerStarterFirmware |-> UIntAlt,
     dwVerRuntimeFirmware |-> UIntAlt,
     dwStatus |-> UEYE_ETH_DEVICESTATUS_Samples,
     wTemperature |-> WordAlt,
     wLinkSpeed_Mb |-> WordAlt,
     macDevice |-> UEYE_ETH_ADDR_MAC_Samples,
     wComportOffset |-> WordAlt,
     ipcfgPersistentIpCfg |-> HeartbeatIpCfgAlt,
     ipcfgCurrentIpCfg |-> HeartbeatIpCfgAlt,
     macPairedHost |-> UEYE_ETH_ADDR_MAC_Samples,
     ipPairedHostIp |-> HeartbeatIpv4Alt,
     ipAutoCfgIpRangeBegin |-> HeartbeatIpv4Alt,
     ipAutoCfgIpRangeEnd |-> HeartbeatIpv4Alt,
     abyUserSpace |-> ByteArrays(USER_SPACE_LEN)]

HeartbeatReservedAlt ==
    [reserved_1 |-> ByteArrays(HEARTBEAT_RESERVED_1_LEN),
     reserved_2 |-> ByteArrays(HEARTBEAT_RESERVED_2_LEN),
     reserved_4 |-> ByteArrays(HEARTBEAT_RESERVED_4_LEN),
     reserved_5 |-> ByteArrays(HEARTBEAT_RESERVED_5_LEN),
     reserved_6 |-> ByteArrays(HEARTBEAT_RESERVED_6_LEN)]

\* Heartbeats tried: one field changed, with zeroed reserved bytes; and the
\* zero heartbeat and one with a camera ID, with one reserved array changed.
UEYE_ETH_DEVICE_INFO_HEARTBEAT_Samples ==
    Variants(UEYE_ETH_DEVICE_INFO_HEARTBEAT_Zero, HeartbeatFieldAlt)
    \cup Variants(UEYE_ETH_DEVICE_INFO_HEARTBEAT_Zero, HeartbeatReservedAlt)
    \cup Variants([UEYE_ETH_DEVICE_INFO_HEARTBEAT_Zero EXCEPT !.byCameraID = 1],
                  HeartbeatReservedAlt)

UEYE_ETH_DEVICE_INFO_HEARTBEAT_eq_skip_comport(self, other) ==
    /\ self.abySerialNumber = other.abySerialNumber
    /\ self.byDeviceType = other.byDeviceType
    /\ self.byCameraID = other.byCameraID
    /\ self.wSensorID = other.wSensorID
    /\ self.wSizeImgMem_MB = other.wSizeImgMem_MB
    /\ self.dwVerStarterFirmware = other.dwVerStarterFirmware
    /\ self.dwVerRuntimeFirmware = other.dwVerRuntimeFirmware
    /\ self.dwStatus = other.dwStatus
    /\ self.wTemperature = other.wTemperature
    /\ self.wLinkSpeed_Mb = other.wLinkSpeed_Mb
    /\ UEYE_ETH_ADDR_MAC_eq(self.macDevice, other.macDevice)
    /\ UEYE_ETH_IP_CONFIGURATION_eq(self.ipcfgPersistentIpCfg, other.ipcfgPersistentIpCfg)
    /\ UEYE_ETH_IP_CONFIGURATION_eq(self.ipcfgCurrentIpCfg, other.ipcfgCurrentIpCfg)
    /\ UEYE_ETH_ADDR_MAC_eq(self.macPairedHost, other.macPairedHost)
    /\ UEYE_ETH_ADDR_IPV4_eq(self.ipPairedHostIp, other.ipPairedHostIp)
    /\ UEYE_ETH_ADDR_IPV4_eq(self.ipAutoCfgIpRangeBegin, other.ipAutoCfgIpRangeBegin)
    /\ UEYE_ETH_ADDR_IPV4_eq(self.ipAutoCfgIpRangeEnd, other.ipAutoCfgIpRangeEnd)
    /\ self.abyUserSpace = other.abyUserSpace

UEYE_ETH_DEVICE_INFO_HEARTBEAT_eq(self, other) ==
    LET abySerialNumber_aligned == self.abySerialNumber
        byDeviceType_aligned == self.byDeviceType
        byCameraID_aligned == self.byCameraID
        wSensorID_aligned == self.wSensorID
        wSizeImgMem_MB_aligned == self.wSizeImgMem_MB
        dwVerStarterFirmware_aligned == self.dwVerStarterFirmware
        dwVerRuntimeFirmware_aligned == self.dwVerRuntimeFirmware
        dwStatus_aligned == self.dwStatus
        wTemperature_aligned == self.wTemperature
        wLinkSpeed_Mb_aligned == self.wLinkSpeed_Mb
        wComportOffset_aligned == self.wComportOffset
        other_abySerialNumber_aligned == other.abySerialNumber
        other_byDeviceType_aligned == other.byDeviceType
        other_byCameraID_aligned == other.byCameraID
        other_wSensorID_aligned == other.wSensorID
        other_wSizeImgMem_MB_aligned == other.wSizeImgMem_MB
        other_dwVerStarterFirmware_aligned == other.dwVerStarterFirmware
        other_dwVerRuntimeFirmware_aligned == other.dwVerRuntimeFirmware
        other_dwStatus_aligned == other.dwStatus
        other_wTemperature_aligned == other.wTemperature
        other_wLinkSpeed_Mb_aligned == other.wLinkSpeed_Mb
        other_wComportOffset_aligned == other.wComportOffset
    IN  /\ abySerialNumber_aligned = other_abySerialNumber_aligned
        /\ byDeviceType_aligned = other_byDeviceType_aligned
        /\ byCameraID_aligned = other_byCameraID_aligned
        /\ wSensorID_aligned = other_wSensorID_aligned
        /\ wSizeImgMem_MB_aligned = other_wSizeImgMem_MB_aligned
        /\ dwVerStarterFirmware_aligned = other_dwVerStarterFirmware_aligned
        /\ dwVerRuntimeFirmware_aligned = other_dwVerRuntimeFirmware_aligned
        /\ dwStatus_aligned = other_dwStatus_aligned
        /\ wTemperature_aligned = other_wTemperature_aligned
        /\ wLinkSpeed_Mb_aligned = other_wLinkSpeed_Mb_aligned
        /\ UEYE_ETH_ADDR_MAC_eq(self.macDevice, other.macDevice)
        /\ wComportOffset_aligned = other_wComportOffset_aligned
        /\ UEYE_ETH_IP_CONFIGURATION_eq(self.ipcfgPersistentIpCfg, other.ipcfgPersistentIpCfg)
        /\ UEYE_ETH_IP_CONFIGURATION_eq(self.ipcfgCurrentIpCfg, other.ipcfgCurrentIpCfg)
        /\ UEYE_ETH_ADDR_MAC_eq(self.macPairedHost, other.macPairedHost)
        /\ UEYE_ETH_ADDR_IPV4_eq(self.ipPairedHostIp, other.ipPairedHostIp)
        /\ UEYE_ETH_ADDR_IPV4_eq(self.ipAutoCfgIpRangeBegin, other.ipAutoCfgIpRangeBegin)
        /\ UEYE_ETH_ADDR_IPV4_eq(self.ipAutoCfgIpRangeEnd, other.ipAutoCfgIpRangeEnd)
        /\ self.abyUserSpace = other.abyUserSpace

InitDeviceInfoHeartbeatEq ==
    /\ call = "UEYE_ETH_DEVICE_INFO_HEARTBEAT::eq"
    /\ args \in Pairs(UEYE_ETH_DEVICE_INFO_HEARTBEAT_Samples)

DeviceInfoHeartbeatEq ==
    /\ pc = "ready" /\ call = "UEYE_ETH_DEVICE_INFO_HEARTBEAT::eq"
    /\ ret' = UEYE_ETH_DEVICE_INFO_HEARTBEAT_eq(args[1], args[2])
    /\ pc' = "done"
    /\ UNCHANGED <<call, args>>

InitIpConfigurationEq ==
    /\ call = "UEYE_ETH_IP_CONFIGURATION::eq"
    /\ args \in Pairs(UEYE_ETH_IP_CONFIGURATION_Samples)

IpConfigurationEq ==
    /\ pc = "ready" /\ call = "UEYE_ETH_IP_CONFIGURATION::eq"
    /\ ret' = UEYE_ETH_IP_CONFIGURATION_eq(args[1], args[2])
    /\ pc' = "done"
    /\ UNCHANGED <<call, args>>

InitAutocfgIpSetupEq ==
    /\ call = "UEYE_ETH_AUTOCFG_IP_SETUP::eq"
    /\ args \in Pairs(UEYE_ETH_AUTOCFG_IP_SETUP_Samples)

AutocfgIpSetupEq ==
    /\ pc = "ready" /\ call = "UEYE_ETH_AUTOCFG_IP_SETUP::eq"
    /\ ret' = UEYE_ETH_AUTOCFG_IP_SETUP_eq(args[1], args[2])
    /\ pc' = "done"
    /\ UNCHANGED <<call, args>>

InitDeviceInfoControlEq ==
    /\ call = "UEYE_ETH_DEVICE_INFO_CONTROL::eq"
    /\ args \in Pairs(UEYE_ETH_DEVICE_INFO_CONTROL_Samples)

DeviceInfoControlEq ==
    /\ pc = "ready" /\ call = "UEYE_ETH_DEVICE_INFO_CONTROL::eq"
    /\ ret' = UEYE_ETH_DEVICE_INFO_CONTROL_eq(args[1], args[2])
    /\ pc' = "done"
    /\ UNCHANGED <<call, args>>

-----------------------------------------------------------------------------
(* aoi.rs, device_feature.rs                                               *)

AOI_SEQUENCE_RESERVED_LEN == 60

AOI_SEQUENCE_PARAMS_Zero ==
    [s32AOIIndex |-> 0,
     s32NumberOfCycleRepetitions |-> 0,
     s32X |-> 0,
     s32Y |-> 0,
     dblExposure |-> 0,
     s32Gain |-> 0,
     s32BinningMode |-> 0,
     s32SubsamplingMode |-> 0,
     s32DetachImageParameters |-> 0,
     dblScalerFactor |-> 0,
     s32InUse |-> 0,
     byReserved |-> Fill(AOI_SEQUENCE_RESERVED_LEN, 0)]

AOI_SEQUENCE_PARAMS_Samples ==
    WithReserved(
        Variants(AOI_SEQUENCE_PARAMS_Zero,
                 [s32AOIIndex |-> IntAlt,
                  s32NumberOfCycleRepetitions |-> IntAlt,
                  s32X |-> IntAlt,
                  s32Y |-> IntAlt,
                  dblExposure |-> DoubleAlt,
                  s32Gain |-> IntAlt,
                  s32BinningMode |-> IntAlt,
                  s32SubsamplingMode |-> IntAlt,
                  s32DetachImageParameters |-> IntAlt,
                  dblScalerFactor |-> DoubleAlt,
                  s32InUse |-> IntAlt]),
        "byReserved", ByteArrays(AOI_SEQUENCE_RESERVED_LEN))

AOI_SEQUENCE_PARAMS_Uninit ==
    { [s32AOIIndex |-> j,
       s32NumberOfCycleRepetitions |-> j,
       s32X |-> j,
       s32Y |-> j,
       dblExposure |-> j,
       s32Gain |-> j,
       s32BinningMode |-> j,
       s32SubsamplingMode |-> j,
       s32DetachImageParameters |-> j,
       dblScalerFactor |-> j,
       s32InUse |-> j,
       byReserved |-> Fill(AOI_SEQUENCE_RESERVED_LEN, j)] : j \in UninitFills }

AOI_SEQUENCE_PARAMS_clone_forgets_gain(self, uninit) ==
    [uninit EXCEPT !.s32AOIIndex = self.s32AOIIndex,
                   !.s32NumberOfCycleRepetitions = self.s32NumberOfCycleRepetitions,
                   !.s32X = self.s32X,
                   !.s32Y = self.s32Y,
                   !.dblExposure = self.dblExposure,
                   !.s32BinningMode = self.s32BinningMode,
                   !.s32SubsamplingMode = self.s32SubsamplingMode,
                   !.s32DetachImageParameters = self.s32DetachImageParameters,
                   !.dblScalerFactor = self.dblScalerFactor,
                   !.s32InUse = self.s32InUse]

AOI_SEQUENCE_PARAMS_clone(self, uninit) ==
    [uninit EXCEPT !.s32AOIIndex = self.s32AOIIndex,
                   !.s32NumberOfCycleRepetitions = self.s32NumberOfCycleRepetitions,
                   !.s32X = self.s32X,
                   !.s32Y = self.s32Y,
                   !.dblExposure = self.dblExposure,
                   !.s32Gain = self.s32Gain,
                   !.s32BinningMode = self.s32BinningMode,
                   !.s32SubsamplingMode = self.s32SubsamplingMode,
                   !.s32DetachImageParameters = self.s32DetachImageParameters,
                   !.dblScalerFactor = self.dblScalerFactor,
                   !.s32InUse = self.s32InUse]

MULTI_INTEGRATION_RESERVED_LEN == 32

IS_MULTI_INTEGRATION_SCOPE_Zero ==
    [dblMinIntegration_ms |-> 0,
     dblMaxIntegration_ms |-> 0,
     dblIntegrationGranularity_ms |-> 0,
     dblMinPause_ms |-> 0,
     dblMaxPause_ms |-> 0,
     dblPauseGranularity_ms |-> 0,
     dblMinCycle_ms |-> 0,
     dblMaxCycle_ms |-> 0,
     dblCycleGranularity_ms |-> 0,
     dblMinTriggerCycle_ms |-> 0,
     dblMinTriggerDuration_ms |-> 0,
     nMinNumberOfCycles |-> 0,
     nMaxNumberOfCycles |-> 0,
     m_bReserved |-> Fill(MULTI_INTEGRATION_RESERVED_LEN, 0)]

IS_MULTI_INTEGRATION_SCOPE_Samples ==
    WithReserved(
        Variants(IS_MULTI_INTEGRATION_SCOPE_Zero,
                 [dblMinIntegration_ms |-> DoubleAlt,
                  dblMaxIntegration_ms |-> DoubleAlt,
                  dblIntegrationGranularity_ms |-> DoubleAlt,
                  dblMinPause_ms |-> DoubleAlt,
                  dblMaxPause_ms |-> DoubleAlt,
                  dblPauseGranularity_ms |-> DoubleAlt,
                  dblMinCycle_ms |-> DoubleAlt,
                  dblMaxCycle_ms |-> DoubleAlt,
                  dblCycleGranularity_ms |-> DoubleAlt,
                  dblMinTriggerCycle_ms |-> DoubleAlt,
                  dblMinTriggerDuration_ms |-> DoubleAlt,
                  nMinNumberOfCycles |-> UIntAlt,
                  nMaxNumberOfCycles |-> UIntAlt]),
        "m_bReserved", ByteArrays(MULTI_INTEGRATION_RESERVED_LEN))

IS_MULTI_INTEGRATION_SCOPE_Uninit ==
    { [dblMinIntegration_ms |-> j,
       dblMaxIntegration_ms |-> j,
       dblIntegrationGranularity_ms |-> j,
       dblMinPause_ms |-> j,
       dblMaxPause_ms |-> j,
       dblPauseGranularity_ms |-> j,
       dblMinCycle_ms |-> j,
       dblMaxCycle_ms |-> j,
       dblCycleGranularity_ms |-> j,
       dblMinTriggerCycle_ms |-> j,
       dblMinTriggerDuration_ms |-> j,
       nMinNumberOfCycles |-> j,
       nMaxNumberOfCycles |-> j,
       m_bReserved |-> Fill(MULTI_INTEGRATION_RESERVED_LEN, j)] : j \in UninitFills }

IS_MULTI_INTEGRATION_SCOPE_clone(self, uninit) ==
    [uninit EXCEPT !.dblMinIntegration_ms = self.dblMinIntegration_ms,
                   !.dblMaxIntegration_ms = self.dblMaxIntegration_ms,
                   !.dblIntegrationGranularity_ms = self.dblIntegrationGranularity_ms,
                   !.dblMinPause_ms = self.dblMinPause_ms,
                   !.dblMaxPause_ms = self.dblMaxPause_ms,
                   !.dblPauseGranularity_ms = self.dblPauseGranularity_ms,
                   !.dblMinCycle_ms = self.dblMinCycle_ms,
                   !.dblMaxCycle_ms = self.dblMaxCycle_ms,
                   !.dblCycleGranularity_ms = self.dblCycleGranularity_ms,
                   !.dblMinTriggerCycle_ms = self.dblMinTriggerCycle_ms,
                   !.dblMinTriggerDuration_ms = self.dblMinTriggerDuration_ms,
                   !.nMinNumberOfCycles = self.nMinNumberOfCycles,
                   !.nMaxNumberOfCycles = self.nMaxNumberOfCycles]

InitAoiSequenceParamsClone ==
    /\ call = "AOI_SEQUENCE_PARAMS::clone"
    /\ args \in {<<x>> : x \in AOI_SEQUENCE_PARAMS_Samples}

AoiSequenceParamsClone ==
    /\ pc = "ready" /\ call = "AOI_SEQUENCE_PARAMS::clone"
    /\ \E uninit \in AOI_SEQUENCE_PARAMS_Uninit :
           ret' = AOI_SEQUENCE_PARAMS_clone(args[1], uninit)
    /\ pc' = "done"
    /\ UNCHANGED <<call, args>>

InitMultiIntegrationScopeClone ==
    /\ call = "IS_MULTI_INTEGRATION_SCOPE::clone"
    /\ args \in {<<x>> : x \in IS_MULTI_INTEGRATION_SCOPE_Samples}

MultiIntegrationScopeClone ==
    /\ pc = "ready" /\ call = "IS_MULTI_INTEGRATION_SCOPE::clone"
    /\ \E uninit \in IS_MULTI_INTEGRATION_SCOPE_Uninit :
           ret' = IS_MULTI_INTEGRATION_SCOPE_clone(args[1], uninit)
    /\ pc' = "done"
    /\ UNCHANGED <<call, args>>

-----------------------------------------------------------------------------
(* build.rs                                                                *)

\* str::contains with a string pattern: sub occurs in s as a substring.
Contains(s, sub) ==
    \E i \in 0..(Len(s) - Len(sub)) : SubSeq(s, i + 1, i + Len(sub)) = sub

S_windows == <<"w", "i", "n", "d", "o", "w", "s">>
S_linux == <<"l", "i", "n", "u", "x">>
S_x86_64 == <<"x", "8", "6", "_", "6", "4">>
S_x86 == <<"x", "8", "6">>
S_empty == <<>>

\* The result of env::var: <<>> is Err (the variable is not set, or is not
\* Unicode), <<v>> is Ok(v).
Unset == <<>>
Ok(v) == <<v>>

\* .unwrap_or_else(|_| String::new())
unwrap_or_empty(result) == IF result = Unset THEN S_empty ELSE result[1]

\* println!("cargo:KEY=VALUE") is the directive <<KEY, VALUE>>.
LinkLib(value) == <<"rustc-link-lib", value>>
LinkSearch(value) == <<"rustc-link-search", value>>
RerunIfChanged == <<"rerun-if-changed", "build.rs">>

NoPanic == "none"

main_linux_first(TARGET, CARGO_CFG_TARGET_ARCH) ==
    LET target == unwrap_or_empty(TARGET)
        arch == unwrap_or_empty(CARGO_CFG_TARGET_ARCH)
    IN  IF Contains(target, S_linux) /\ arch = S_x86_64
        THEN [stdout |-> <<LinkSearch("native=/usr/lib"),
                           LinkSearch("native=/opt/ids/ueye/lib/x86_64-linux-gnu"),
                           LinkLib("dylib=ueye_api64"), RerunIfChanged>>,
              panic |-> NoPanic]
        ELSE IF Contains(target, S_linux) /\ arch = S_x86
        THEN [stdout |-> <<LinkSearch("native=/usr/lib"), LinkLib("dylib=ueye_api"),
                           RerunIfChanged>>,
              panic |-> NoPanic]
        ELSE IF Contains(target, S_linux)
        THEN [stdout |-> <<>>,
              panic |-> "Unsupported Linux architecture: only x86 and x86_64 are supported"]
        ELSE IF Contains(target, S_windows)
        THEN [stdout |-> <<LinkLib("dylib=uEye_api"), RerunIfChanged>>, panic |-> NoPanic]
        ELSE [stdout |-> <<>>,
              panic |-> "Unsupported platform: only Windows and Linux are supported"]

main_rerun_first(TARGET, CARGO_CFG_TARGET_ARCH) ==
    LET target == unwrap_or_empty(TARGET)
        arch == unwrap_or_empty(CARGO_CFG_TARGET_ARCH)
        started == <<RerunIfChanged>>
    IN  IF Contains(target, S_windows)
        THEN [stdout |-> started \o <<LinkLib("dylib=uEye_api")>>, panic |-> NoPanic]
        ELSE IF Contains(target, S_linux)
        THEN IF arch = S_x86_64
             THEN [stdout |-> started \o <<LinkSearch("native=/usr/lib"),
                                  LinkSearch("native=/opt/ids/ueye/lib/x86_64-linux-gnu"),
                                  LinkLib("dylib=ueye_api64")>>,
                   panic |-> NoPanic]
             ELSE IF arch = S_x86
             THEN [stdout |-> started \o <<LinkSearch("native=/usr/lib"),
                                           LinkLib("dylib=ueye_api")>>,
                   panic |-> NoPanic]
             ELSE [stdout |-> started,
                   panic |-> "Unsupported Linux architecture: only x86 and x86_64 are supported"]
        ELSE [stdout |-> started,
              panic |-> "Unsupported platform: only Windows and Linux are supported"]

\* The build script, run once: what it printed, and the panic it ended with
\* (NoPanic when it returned).
main(TARGET, CARGO_CFG_TARGET_ARCH) ==
    LET target == unwrap_or_empty(TARGET)
        arch == unwrap_or_empty(CARGO_CFG_TARGET_ARCH)
    IN  IF Contains(target, S_windows)
        THEN [stdout |-> <<LinkLib("dylib=uEye_api"), RerunIfChanged>>, panic |-> NoPanic]
        ELSE IF Contains(target, S_linux)
        THEN LET matched ==
                     IF arch = S_x86_64
                     THEN [stdout |-> <<LinkSearch("native=/usr/lib"),
                                        LinkSearch("native=/opt/ids/ueye/lib/x86_64-linux-gnu"),
                                        LinkLib("dylib=ueye_api64")>>,
                           panic |-> NoPanic]
                     ELSE IF arch = S_x86
                     THEN [stdout |-> <<LinkSearch("native=/usr/lib"),
                                        LinkLib("dylib=ueye_api")>>,
                           panic |-> NoPanic]
                     ELSE [stdout |-> <<>>,
                           panic |-> "Unsupported Linux architecture: only x86 and x86_64 are supported"]
             IN  IF matched.panic # NoPanic
                 THEN matched
                 ELSE [matched EXCEPT !.stdout = Append(@, RerunIfChanged)]
        ELSE [stdout |-> <<>>,
              panic |-> "Unsupported platform: only Windows and Linux are supported"]

\* TARGET values tried: a platform word (or a near miss, or both words in
\* either order) with and without an architecture before and an ABI after.
TargetPrefixes == {S_empty, S_x86_64 \o <<"-">>}
TargetWords ==
    {S_empty, S_windows, S_linux,
     <<"d", "a", "r", "w", "i", "n">>,
     <<"w", "i", "n", "d", "o", "w">>,
     <<"L", "i", "n", "u", "x">>,
     S_windows \o <<"-">> \o S_linux,
     S_linux \o <<"-">> \o S_windows}
TargetSuffixes == {S_empty, <<"-", "g", "n", "u">>}

TargetSamples ==
    {Unset} \cup {Ok(p \o w \o x) : p \in TargetPrefixes, w \in TargetWords, x \in TargetSuffixes}

ArchSamples ==
    {Unset, Ok(S_empty), Ok(S_x86_64), Ok(S_x86),
     Ok(<<"a", "a", "r", "c", "h", "6", "4">>),
     Ok(<<"x", "8", "6", "_", "6">>),
     Ok(<<"X", "8", "6">>)}

InitBuild == call = "build::main" /\ args \in TargetSamples \X ArchSamples

Build ==
    /\ pc = "ready" /\ call = "build::main"
    /\ ret' = main(args[1], args[2])
    /\ pc' = "done"
    /\ UNCHANGED <<call, args>>

-----------------------------------------------------------------------------
(* types/discrete.rs                                                       *)

\* A &str is the sequence of its chars, a char its Unicode scalar value.
SURROGATE_FIRST == 55296
LOW_SURROGATE_FIRST == 56320
SUPPLEMENTARY_FIRST == 65536

\* Chars tried: NUL, 'A', U+00E9, the last char of the basic plane, the
\* first supplementary one, U+1F600 and the last char of all.
CharSamples == {0, 65, 233, 65535, SUPPLEMENTARY_FIRST, 128512, 1114111}

RECURSIVE SeqsUpTo(_, _)
SeqsUpTo(xs, n) ==
    IF n = 0 THEN {<<>>}
    ELSE LET shorter == SeqsUpTo(xs, n - 1)
         IN  shorter \cup {Append(q, x) : q \in shorter, x \in xs}

StrSamples == SeqsUpTo(CharSamples, MaxStrLen)

TargetOsSamples == {"windows", "linux"}

\* OsStr::encode_wide of one char: its UTF-16 code units.
encode_utf16(c) ==
    IF c < SUPPLEMENTARY_FIRST THEN <<c>>
    ELSE <<SURROGATE_FIRST + ((c - SUPPLEMENTARY_FIRST) \div 1024),
           LOW_SURROGATE_FIRST + ((c - SUPPLEMENTARY_FIRST) % 1024)>>

RECURSIVE encode_wide(_)
encode_wide(s) ==
    IF s = <<>> THEN <<>> ELSE encode_utf16(Head(s)) \o encode_wide(Tail(s))

\* s.chars().map(|c| c as wchar_t), wchar_t being u32
chars_as_wchar(s) == [i \in 1..Len(s) |-> s[i]]

to_wide_unterminated(s, target_os) ==
    IF target_os = "windows" THEN encode_wide(s) ELSE chars_as_wchar(s)

to_wide(s, target_os) ==
    IF target_os = "windows"
    THEN encode_wide(s) \o <<0>>
    ELSE chars_as_wchar(s) \o <<0>>

InitToWide == call = "to_wide" /\ args \in StrSamples \X TargetOsSamples

ToWide ==
    /\ pc = "ready" /\ call = "to_wide"
    /\ ret' = to_wide(args[1], args[2])
    /\ pc' = "done"
    /\ UNCHANGED <<call, args>>

-----------------------------------------------------------------------------
(* black_level.rs, lut.rs, io.rs, configuration.rs: From<bool>             *)

\* The discriminant each enum declaration gives its variants.
Discriminant ==
    [IS_AUTO_BLACKLEVEL_OFF |-> 0, IS_AUTO_BLACKLEVEL_ON |-> 1,
     IS_LUT_DISABLED |-> 0, IS_LUT_ENABLED |-> 1,
     IS_FLASH_AUTO_FREERUN_OFF |-> 0, IS_FLASH_AUTO_FREERUN_ON |-> 1,
     IS_CONFIG_IPO_NOT_ALLOWED |-> 0, IS_CONFIG_IPO_ALLOWED |-> 1,
     IS_CONFIG_OPEN_MP_DISABLE |-> 0, IS_CONFIG_OPEN_MP_ENABLE |-> 1,
     IS_CONFIG_ETH_CONFIGURATION_MODE_OFF |-> 0, IS_CONFIG_ETH_CONFIGURATION_MODE_ON |-> 1,
     IS_CONFIG_TRUSTED_PAIRING_OFF |-> 0, IS_CONFIG_TRUSTED_PAIRING_ON |-> 1,
     IS_CONFIG_IMAGE_MEMORY_COMPATIBILITY_MODE_OFF |-> 0,
     IS_CONFIG_IMAGE_MEMORY_COMPATIBILITY_MODE_ON |-> 1]

BLACKLEVEL_MODES_from(value) ==
    IF value THEN "IS_AUTO_BLACKLEVEL_ON" ELSE "IS_AUTO_BLACKLEVEL_OFF"

LUT_ENABLED_from(value) ==
    IF value THEN "IS_LUT_ENABLED" ELSE "IS_LUT_DISABLED"

FLASH_AUTO_FREERUN_from_swapped(b) ==
    IF b THEN "IS_FLASH_AUTO_FREERUN_OFF" ELSE "IS_FLASH_AUTO_FREERUN_ON"

FLASH_AUTO_FREERUN_from(b) ==
    IF b THEN "IS_FLASH_AUTO_FREERUN_ON" ELSE "IS_FLASH_AUTO_FREERUN_OFF"

CONFIGURATION_SEL_IPO_from(value) ==
    IF value THEN "IS_CONFIG_IPO_ALLOWED" ELSE "IS_CONFIG_IPO_NOT_ALLOWED"

CONFIGURATION_SEL_OPEN_MP_from(value) ==
    IF value THEN "IS_CONFIG_OPEN_MP_ENABLE" ELSE "IS_CONFIG_OPEN_MP_DISABLE"

CONFIGURATION_SEL_ETH_CONFIGURATION_from(value) ==
    IF value THEN "IS_CONFIG_ETH_CONFIGURATION_MODE_ON"
    ELSE "IS_CONFIG_ETH_CONFIGURATION_MODE_OFF"

CONFIGURATION_SEL_TRUSTED_PAIRING_from(value) ==
    IF value THEN "IS_CONFIG_TRUSTED_PAIRING_ON" ELSE "IS_CONFIG_TRUSTED_PAIRING_OFF"

CONFIGURATION_SEL_IMAGE_MEMORY_COMPATIBILITY_MODE_from(value) ==
    IF value THEN "IS_CONFIG_IMAGE_MEMORY_COMPATIBILITY_MODE_ON"
    ELSE "IS_CONFIG_IMAGE_MEMORY_COMPATIBILITY_MODE_OFF"

\* The enums with a From<bool> impl when compiled for target_os:
\* CONFIGURATION_SEL_IPO exists on windows only,
\* CONFIGURATION_SEL_ETH_CONFIGURATION on linux only.
BoolEnums(target_os) ==
    {"BLACKLEVEL_MODES", "LUT_ENABLED", "FLASH_AUTO_FREERUN", "CONFIGURATION_SEL_OPEN_MP",
     "CONFIGURATION_SEL_TRUSTED_PAIRING", "CONFIGURATION_SEL_IMAGE_MEMORY_COMPATIBILITY_MODE"}
    \cup (IF target_os = "windows" THEN {"CONFIGURATION_SEL_IPO"} ELSE {})
    \cup (IF target_os = "linux" THEN {"CONFIGURATION_SEL_ETH_CONFIGURATION"} ELSE {})

\* <enum as From<bool>>::from(value)
From_bool(enum, value) ==
    CASE enum = "BLACKLEVEL_MODES" -> BLACKLEVEL_MODES_from(value)
      [] enum = "LUT_ENABLED" -> LUT_ENABLED_from(value)
      [] enum = "FLASH_AUTO_FREERUN" -> FLASH_AUTO_FREERUN_from(value)
      [] enum = "CONFIGURATION_SEL_IPO" -> CONFIGURATION_SEL_IPO_from(value)
      [] enum = "CONFIGURATION_SEL_OPEN_MP" -> CONFIGURATION_SEL_OPEN_MP_from(value)
      [] enum = "CONFIGURATION_SEL_ETH_CONFIGURATION" ->
             CONFIGURATION_SEL_ETH_CONFIGURATION_from(value)
      [] enum = "CONFIGURATION_SEL_TRUSTED_PAIRING" ->
             CONFIGURATION_SEL_TRUSTED_PAIRING_from(value)
      [] enum = "CONFIGURATION_SEL_IMAGE_MEMORY_COMPATIBILITY_MODE" ->
             CONFIGURATION_SEL_IMAGE_MEMORY_COMPATIBILITY_MODE_from(value)

InitFromBool ==
    /\ call = "From<bool>::from"
    /\ args \in {<<enum, value, os>> : enum \in BoolEnums("windows") \cup BoolEnums("linux"),
                                       value \in BOOLEAN, os \in TargetOsSamples}
    /\ args[1] \in BoolEnums(args[3])

FromBool ==
    /\ pc = "ready" /\ call = "From<bool>::from"
    /\ ret' = From_bool(args[1], args[2])
    /\ pc' = "done"
    /\ UNCHANGED <<call, args>>

-----------------------------------------------------------------------------
(* power_delivery.rs: IS_POWER_DELIVERY_PROFILES and voltage().  A profile *)
(* is the UINT bit pattern of the flags value; a voltage is held in tenths *)
(* of a volt (14.8 is 148).                                                *)

IS_POWER_DELIVERY_PROFILE_INVALID == 0
IS_POWER_DELIVERY_PROFILE_5V_LOW_POWER == 1
IS_POWER_DELIVERY_PROFILE_5V_HIGH_POWER == 2
IS_POWER_DELIVERY_PROFILE_9V == 4
IS_POWER_DELIVERY_PROFILE_12V == 8
IS_POWER_DELIVERY_PROFILE_14V8 == 16
IS_POWER_DELIVERY_PROFILE_15V == 32

NamedProfiles ==
    { IS_POWER_DELIVERY_PROFILE_INVALID,
      IS_POWER_DELIVERY_PROFILE_5V_LOW_POWER,
      IS_POWER_DELIVERY_PROFILE_5V_HIGH_POWER,
      IS_POWER_DELIVERY_PROFILE_9V,
      IS_POWER_DELIVERY_PROFILE_12V,
      IS_POWER_DELIVERY_PROFILE_14V8,
      IS_POWER_DELIVERY_PROFILE_15V }

(* `const _ = !0` makes every bit pattern a valid flags value: unions of   *)
(* the named flags and patterns with unnamed bits are values too.          *)
ProfileSamples ==
    NamedProfiles
      \cup { a + b : a \in {IS_POWER_DELIVERY_PROFILE_5V_LOW_POWER,
                            IS_POWER_DELIVERY_PROFILE_9V},
                     b \in {IS_POWER_DELIVERY_PROFILE_5V_HIGH_POWER,
                            IS_POWER_DELIVERY_PROFILE_15V} }
      \cup { 64 * k : k \in 1..MaxField }
      \cup { INT_MAX }

(* The arms of the match in voltage(), in source order.  An arm is the set *)
(* of constant patterns it lists, whether it also lists `_`, and its value.*)
voltage_arms ==
    << [consts |-> {IS_POWER_DELIVERY_PROFILE_INVALID}, wildcard |-> TRUE, value |-> 0],
       [consts |-> {IS_POWER_DELIVERY_PROFILE_5V_LOW_POWER,
                    IS_POWER_DELIVERY_PROFILE_5V_HIGH_POWER},
        wildcard |-> FALSE, value |-> 50],
       [consts |-> {IS_POWER_DELIVERY_PROFILE_9V}, wildcard |-> FALSE, value |-> 90],
       [consts |-> {IS_POWER_DELIVERY_PROFILE_12V}, wildcard |-> FALSE, value |-> 120],
       [consts |-> {IS_POWER_DELIVERY_PROFILE_14V8}, wildcard |-> FALSE, value |-> 148],
       [consts |-> {IS_POWER_DELIVERY_PROFILE_15V}, wildcard |-> FALSE, value |-> 150] >>

(* A match takes the first arm, in order, one of whose patterns matches.   *)
ArmMatches(arm, self) == arm.wildcard \/ self \in arm.consts

voltage(self) ==
    LET taken == CHOOSE i \in 1..Len(voltage_arms) :
                    /\ ArmMatches(voltage_arms[i], self)
                    /\ \A j \in 1..(i - 1) : ~ArmMatches(voltage_arms[j], self)
    IN  voltage_arms[taken].value

InitVoltage ==
    /\ call = "IS_POWER_DELIVERY_PROFILES::voltage"
    /\ args \in {<<self>> : self \in ProfileSamples}

Voltage ==
    /\ pc = "ready" /\ call = "IS_POWER_DELIVERY_PROFILES::voltage"
    /\ ret' = voltage(args[1])
    /\ pc' = "done"
    /\ UNCHANGED <<call, args>>

-----------------------------------------------------------------------------
(* Machine arithmetic of `-`, `*` and abs() on INT and UINT.  A 32-bit     *)
(* value is held as its bit pattern read in two's complement, so a UINT of *)
(* 2^31 or more is a negative number here and UINT order is ULess.  The    *)
(* operators work on 16-bit halves so that no intermediate value leaves    *)
(* the 32-bit range.  An operation that overflows panics when the build    *)
(* has overflow checks (the debug profile) and wraps when it has not (the  *)
(* release profile).                                                       *)

HALF == 65536

Hi(x) == x \div HALF
Lo(x) == x % HALF

(* The two's-complement value whose high half is h (mod 2^16), low half l. *)
Join(h, l) ==
    LET hh == h % HALF
    IN  (IF hh >= HALF \div 2 THEN hh - HALF ELSE hh) * HALF + l

HiFits(h) == h >= -(HALF \div 2) /\ h < HALF \div 2

OverflowChecks == BOOLEAN

Arith(fits, wrapped, overflow_checks) ==
    IF ~fits /\ overflow_checks
    THEN [panic |-> TRUE, value |-> 0]
    ELSE [panic |-> FALSE, value |-> wrapped]

SubHi(a, b) == Hi(a) - Hi(b) - (IF Lo(a) < Lo(b) THEN 1 ELSE 0)

wrapping_sub(a, b) == Join(SubHi(a, b), (Lo(a) - Lo(b)) % HALF)

ULess(a, b) == IF (a < 0) = (b < 0) THEN a < b ELSE b < 0

(* `a - b` on INT and on UINT.                                             *)
INT_sub(a, b, overflow_checks) ==
    Arith(HiFits(SubHi(a, b)), wrapping_sub(a, b), overflow_checks)

UINT_sub(a, b, overflow_checks) ==
    Arith(~ULess(a, b), wrapping_sub(a, b), overflow_checks)

(* INT::abs(): the magnitude of INT_MIN is not an INT.                     *)
INT_abs(a, overflow_checks) ==
    Arith(a # INT_MIN, IF a < 0 /\ a # INT_MIN THEN -a ELSE a, overflow_checks)

(* al * bl for two 16-bit halves, as <<carry into the high half, low half>>*)
MulLo(al, bl) ==
    LET p1 == (al \div 256) * bl
        p0 == (al % 256) * bl
        low == (p1 % 256) * 256 + p0
    IN  <<(p1 \div 256) + (low \div HALF), low % HALF>>

wrapping_mul(a, b) ==
    LET ll == MulLo(Lo(a), Lo(b))
        cross == ((Hi(a) * Lo(b)) % HALF) + ((Lo(a) * Hi(b)) % HALF)
    IN  Join(ll[1] + cross, ll[2])

NegAbs(x) == IF x > 0 THEN -x ELSE x

(* The product is an INT exactly when the wrapped value is the product.    *)
MulFits(a, b) ==
    IF a = 0 \/ b = 0 THEN TRUE
    ELSE IF a = INT_MIN THEN b = 1
    ELSE IF b = INT_MIN THEN a = 1
    ELSE LET w == wrapping_mul(a, b)
             B == -NegAbs(b)
         IN  /\ w # 0
             /\ (w < 0) = ((a < 0) # (b < 0))
             /\ NegAbs(w) % B = 0
             /\ NegAbs(w) \div B = NegAbs(a)

(* `a * b` on INT.                                                         *)
INT_mul(a, b, overflow_checks) ==
    Arith(MulFits(a, b), wrapping_mul(a, b), overflow_checks)

-----------------------------------------------------------------------------
(* types/geometry.rs: IS_SIZE_2D and IS_RECT with their area().            *)

GeomAlt == {-1, 0, HALF, INT_MAX} \cup (1..(MaxField + 1))

IS_SIZE_2D_Samples == [s32Width : GeomAlt, s32Height : GeomAlt]

IS_RECT_Samples ==
    [s32X : GeomAlt, s32Y : GeomAlt, s32Width : GeomAlt, s32Height : GeomAlt]

IS_SIZE_2D_area(self, overflow_checks) ==
    INT_mul(self.s32Width, self.s32Height, overflow_checks)

IS_RECT_area(self, overflow_checks) ==
    INT_mul(self.s32X, self.s32Y, overflow_checks)

InitSizeArea ==
    /\ call = "IS_SIZE_2D::area"
    /\ args \in IS_SIZE_2D_Samples \X OverflowChecks

SizeArea ==
    /\ pc = "ready" /\ call = "IS_SIZE_2D::area"
    /\ ret' = IS_SIZE_2D_area(args[1], args[2])
    /\ pc' = "done"
    /\ UNCHANGED <<call, args>>

InitRectArea ==
    /\ call = "IS_RECT::area"
    /\ args \in IS_RECT_Samples \X OverflowChecks

RectArea ==
    /\ pc = "ready" /\ call = "IS_RECT::area"
    /\ ret' = IS_RECT_area(args[1], args[2])
    /\ pc' = "done"
    /\ UNCHANGED <<call, args>>

-----------------------------------------------------------------------------
(* Orderings: types/range.rs, types/geometry.rs, image_buffer.rs, focus.rs *)
(* Each cmp and partial_cmp calls size() or area() on self, then on other, *)
(* and compares the two results as integers.  A result is a record: panic  *)
(* says whether the call unwound, value is what it returned otherwise.     *)

UINT_MAX == -1

OrdAlt == {INT_MIN, -1, 0, INT_MAX} \cup (1..MaxField)
UOrdAlt == {0, INT_MAX, UINT_MAX} \cup (1..MaxField)
IncAlt == {0, 1}
RectAlt == {0, 1, HALF}

IS_RANGE_U32_Samples == [u32Min : UOrdAlt, u32Max : UOrdAlt, u32Inc : IncAlt]
IS_RANGE_S32_OrdSamples == [s32Min : OrdAlt, s32Max : OrdAlt, s32Inc : IncAlt]
ID_RANGE_OrdSamples == [s32First : OrdAlt, s32Last : OrdAlt]
AUTOFOCUS_LIMIT_Samples == [sMin : OrdAlt, sMax : OrdAlt]
IS_RECT_OrdSamples ==
    [s32X : RectAlt, s32Y : RectAlt, s32Width : RectAlt, s32Height : RectAlt]

IS_RANGE_U32_size(self, overflow_checks) ==
    UINT_sub(self.u32Max, self.u32Min, overflow_checks)

IS_RANGE_S32_size(self, overflow_checks) ==
    INT_sub(self.s32Max, self.s32Min, overflow_checks)

(* (a - b).abs(): the subtraction first, then abs() of what it returned.   *)
AbsDiff(a, b, overflow_checks) ==
    LET d == INT_sub(a, b, overflow_checks)
    IN  IF d.panic THEN d ELSE INT_abs(d.value, overflow_checks)

ID_RANGE_size(self, overflow_checks) ==
    AbsDiff(self.s32Last, self.s32First, overflow_checks)

AUTOFOCUS_LIMIT_size(self, overflow_checks) ==
    AbsDiff(self.sMax, self.sMin, overflow_checks)

(* Ord::cmp of INT and of UINT.                                            *)
INT_cmp(x, y) == IF x < y THEN "Less" ELSE IF x = y THEN "Equal" ELSE "Greater"
UINT_cmp(x, y) == IF ULess(x, y) THEN "Less" ELSE IF x = y THEN "Equal" ELSE "Greater"

Some(v) == <<v>>

(* a.cmp(&b) and a.partial_cmp(&b) of two evaluated measures.              *)
CmpMeasures(m1, m2, unsigned) ==
    IF m1.panic \/ m2.panic
    THEN [panic |-> TRUE, value |-> ""]
    ELSE [panic |-> FALSE,
          value |-> IF unsigned THEN UINT_cmp(m1.value, m2.value)
                                ELSE INT_cmp(m1.value, m2.value)]

PartialCmpMeasures(m1, m2, unsigned) ==
    IF m1.panic \/ m2.panic
    THEN [panic |-> TRUE, value |-> <<>>]
    ELSE [panic |-> FALSE,
          value |-> Some(IF unsigned THEN UINT_cmp(m1.value, m2.value)
                                     ELSE INT_cmp(m1.value, m2.value))]

OrdTypes == {"IS_RANGE_U32", "IS_RANGE_S32", "ID_RANGE", "IS_SIZE_2D", "IS_RECT"}
PartialOrdTypes == OrdTypes \cup {"AUTOFOCUS_LIMIT"}

OrdSamples(type) ==
    CASE type = "IS_RANGE_U32" -> IS_RANGE_U32_Samples
      [] type = "IS_RANGE_S32" -> IS_RANGE_S32_OrdSamples
      [] type = "ID_RANGE" -> ID_RANGE_OrdSamples
      [] type = "AUTOFOCUS_LIMIT" -> AUTOFOCUS_LIMIT_Samples
      [] type = "IS_SIZE_2D" -> IS_SIZE_2D_Samples
      [] type = "IS_RECT" -> IS_RECT_OrdSamples

(* The measure each impl calls.                                            *)
MeasureOf(type, self, overflow_checks) ==
    CASE type = "IS_RANGE_U32" -> IS_RANGE_U32_size(self, overflow_checks)
      [] type = "IS_RANGE_S32" -> IS_RANGE_S32_size(self, overflow_checks)
      [] type = "ID_RANGE" -> ID_RANGE_size(self, overflow_checks)
      [] type = "AUTOFOCUS_LIMIT" -> AUTOFOCUS_LIMIT_size(self, overflow_checks)
      [] type = "IS_SIZE_2D" -> IS_SIZE_2D_area(self, overflow_checks)
      [] type = "IS_RECT" -> IS_RECT_area(self, overflow_checks)

Ord_cmp(type, self, other, overflow_checks) ==
    CmpMeasures(MeasureOf(type, self, overflow_checks),
                MeasureOf(type, other, overflow_checks),
                type = "IS_RANGE_U32")

PartialOrd_partial_cmp(type, self, other, overflow_checks) ==
    PartialCmpMeasures(MeasureOf(type, self, overflow_checks),
                       MeasureOf(type, other, overflow_checks),
                       type = "IS_RANGE_U32")

InitOrdCmp ==
    /\ call = "Ord::cmp"
    /\ \E type \in OrdTypes :
          args \in {type} \X OrdSamples(type) \X OrdSamples(type) \X OverflowChecks

OrdCmp ==
    /\ pc = "ready" /\ call = "Ord::cmp"
    /\ ret' = Ord_cmp(args[1], args[2], args[3], args[4])
    /\ pc' = "done"
    /\ UNCHANGED <<call, args>>

InitPartialCmp ==
    /\ call = "PartialOrd::partial_cmp"
    /\ \E type \in PartialOrdTypes :
          args \in {type} \X OrdSamples(type) \X OrdSamples(type) \X OverflowChecks

PartialCmp ==
    /\ pc = "ready" /\ call = "PartialOrd::partial_cmp"
    /\ ret' = PartialOrd_partial_cmp(args[1], args[2], args[3], args[4])
    /\ pc' = "done"
    /\ UNCHANGED <<call, args>>


(* #[derive(PartialEq)] on the ordered types: field-by-field equality.     *)
IS_RANGE_U32_eq(self, other) ==
    /\ self.u32Min = other.u32Min
    /\ self.u32Max = other.u32Max
    /\ self.u32Inc = other.u32Inc

IS_SIZE_2D_eq(self, other) ==
    /\ self.s32Width = other.s32Width
    /\ self.s32Height = other.s32Height

IS_RECT_eq(self, other) ==
    /\ self.s32X = other.s32X
    /\ self.s32Y = other.s32Y
    /\ self.s32Width = other.s32Width
    /\ self.s32Height = other.s32Height

PartialEq_eq(type, self, other) ==
    CASE type = "IS_RANGE_U32" -> IS_RANGE_U32_eq(self, other)
      [] type = "IS_RANGE_S32" -> IS_RANGE_S32_eq(self, other)
      [] type = "ID_RANGE" -> ID_RANGE_eq(self, other)
      [] type = "IS_SIZE_2D" -> IS_SIZE_2D_eq(self, other)
      [] type = "IS_RECT" -> IS_RECT_eq(self, other)

InitDerivedEq ==
    /\ call = "PartialEq::eq"
    /\ \E type \in OrdTypes :
          args \in {type} \X OrdSamples(type) \X OrdSamples(type)

DerivedEq ==
    /\ pc = "ready" /\ call = "PartialEq::eq"
    /\ ret' = PartialEq_eq(args[1], args[2], args[3])
    /\ pc' = "done"
    /\ UNCHANGED <<call, args>>

-----------------------------------------------------------------------------
(* Hash: image_buffer.rs, eth.rs.  The hasher is modelled by the sequence  *)
(* of writes it has received, each <<method, value>>; hashing a value      *)
(* appends the writes of its fields.                                       *)

HasherStates == {<<>>, << <<"write_u8", 0>> >>}

UINT_hash(v, state) == Append(state, <<"write_u32", v>>)
INT_hash(v, state) == Append(state, <<"write_i32", v>>)
BYTE_hash(v, state) == Append(state, <<"write_u8", v>>)

(* [BYTE; N] hashes as a slice: the length prefix, then the bytes.         *)
ByteArray_hash(v, state) ==
    Append(Append(state, <<"write_length_prefix", Len(v)>>), <<"write", v>>)

(* #[derive(Hash)] on ID_RANGE and on UEYE_ETH_ADDR_IPV4_by: every field,  *)
(* in declaration order.                                                   *)
ID_RANGE_hash(self, state) ==
    INT_hash(self.s32Last, INT_hash(self.s32First, state))

UEYE_ETH_ADDR_IPV4_by_hash(self, state) ==
    BYTE_hash(self.by4, BYTE_hash(self.by3, BYTE_hash(self.by2,
        BYTE_hash(self.by1, state))))

IMGBUF_ITERATION_INFO_hash_with_reserved(self, state) ==
    ByteArray_hash(self.bReserved,
        ID_RANGE_hash(self.rangeImageID, UINT_hash(self.u32IterationID, state)))

IMGBUF_ITERATION_INFO_hash(self, state) ==
    ID_RANGE_hash(self.rangeImageID, UINT_hash(self.u32IterationID, state))

\* Reads the `by` member of the union and hashes that.
UEYE_ETH_ADDR_IPV4_hash(self, state) == UEYE_ETH_ADDR_IPV4_by_hash(self, state)

HashTypes == {"IMGBUF_ITERATION_INFO", "UEYE_ETH_ADDR_IPV4"}

HashSamples(type) ==
    CASE type = "IMGBUF_ITERATION_INFO" -> IMGBUF_ITERATION_INFO_Samples
      [] type = "UEYE_ETH_ADDR_IPV4" -> UEYE_ETH_ADDR_IPV4_Samples

Hash_hash(type, self, state) ==
    CASE type = "IMGBUF_ITERATION_INFO" -> IMGBUF_ITERATION_INFO_hash(self, state)
      [] type = "UEYE_ETH_ADDR_IPV4" -> UEYE_ETH_ADDR_IPV4_hash(self, state)

InitHash ==
    /\ call = "Hash::hash"
    /\ \E type \in HashTypes : args \in {type} \X HashSamples(type) \X HasherStates

Hash ==
    /\ pc = "ready" /\ call = "Hash::hash"
    /\ ret' = Hash_hash(args[1], args[2], args[3])
    /\ pc' = "done"
    /\ UNCHANGED <<call, args>>

-----------------------------------------------------------------------------
(* Debug: eth.rs.  The output of debug_struct(name).field(..)...finish()   *)
(* is modelled by the struct name and the sequence of <<field name,        *)
(* printed value>> in the order of the field() calls.  An integer prints   *)
(* as its decimal numeral, an enum as its variant name, an array as the    *)
(* sequence of its printed elements.                                       *)

debug_struct(name) == [name |-> name, fields |-> <<>>]
field(builder, name, value) == [builder EXCEPT !.fields = Append(@, <<name, value>>)]
finish(builder) == builder

BYTE_fmt(v) == DisplayNat(v)
WORD_fmt(v) == DisplayNat(v)
DWORD_fmt(v) == DisplayNat(v)
Enum_fmt(variant) == variant
ByteArray_fmt(v) == [i \in 1..Len(v) |-> BYTE_fmt(v[i])]

(* Decimal digits, least significant first, of digits * m + carry.         *)
RECURSIVE MulAdd(_, _, _)
MulAdd(digits, m, carry) ==
    IF digits = <<>>
    THEN IF carry = 0 THEN <<>> ELSE <<carry % 10>> \o MulAdd(<<>>, m, carry \div 10)
    ELSE LET t == Head(digits) * m + carry
         IN  <<t % 10>> \o MulAdd(Tail(digits), m, t \div 10)

(* The dwAddr member of the union: the four bytes read as one DWORD on a   *)
(* little-endian target (by1 is the lowest byte), printed in decimal.      *)
dwAddr_fmt(self) ==
    LET le == MulAdd(MulAdd(MulAdd(MulAdd(<<>>, 256, self.by4), 256, self.by3),
                            256, self.by2), 256, self.by1)
    IN  IF le = <<>> THEN <<Digits[1]>>
        ELSE [i \in 1..Len(le) |-> Digits[le[Len(le) + 1 - i] + 1]]

\* #[derive(Debug)] on UEYE_ETH_ADDR_IPV4_by
UEYE_ETH_ADDR_IPV4_by_fmt(self) ==
    finish(field(field(field(field(debug_struct("UEYE_ETH_ADDR_IPV4_by"),
        "by1", BYTE_fmt(self.by1)),
        "by2", BYTE_fmt(self.by2)),
        "by3", BYTE_fmt(self.by3)),
        "by4", BYTE_fmt(self.by4)))

UEYE_ETH_ADDR_IPV4_fmt(self) ==
    finish(field(field(debug_struct("UEYE_ETH_ADDR_IPV4"),
        "by", UEYE_ETH_ADDR_IPV4_by_fmt(self)),
        "dwAddr", dwAddr_fmt(self)))

\* #[derive(Debug)] on UEYE_ETH_ADDR_MAC
UEYE_ETH_ADDR_MAC_fmt(self) ==
    finish(field(debug_struct("UEYE_ETH_ADDR_MAC"),
        "abyOctet", ByteArray_fmt(self.abyOctet)))

UEYE_ETH_IP_CONFIGURATION_fmt_derived(self) ==
    finish(field(field(field(debug_struct("UEYE_ETH_IP_CONFIGURATION"),
        "ipAddress", UEYE_ETH_ADDR_IPV4_fmt(self.ipAddress)),
        "ipSubnetmask", UEYE_ETH_ADDR_IPV4_fmt(self.ipSubnetmask)),
        "reserved", ByteArray_fmt(self.reserved)))

UEYE_ETH_IP_CONFIGURATION_fmt(self) ==
    finish(field(field(debug_struct("UEYE_ETH_IP_CONFIGURATION"),
        "ipAddress", UEYE_ETH_ADDR_IPV4_fmt(self.ipAddress)),
        "ipSubnetmask", UEYE_ETH_ADDR_IPV4_fmt(self.ipSubnetmask)))

UEYE_ETH_DEVICE_INFO_CONTROL_fmt(self) ==
    finish(field(field(debug_struct("UEYE_ETH_DEVICE_INFO_CONTROL"),
        "dwDeviceID", DWORD_fmt(self.dwDeviceID)),
        "dwControlStatus", Enum_fmt(self.dwControlStatus)))

UEYE_ETH_DEVICE_INFO_HEARTBEAT_fmt(self) ==
    finish(
    field(field(field(field(field(field(field(field(field(field(
    field(field(field(field(field(field(field(field(field(
        debug_struct("UEYE_ETH_DEVICE_INFO_HEARTBEAT"),
        "abySerialNumber", ByteArray_fmt(self.abySerialNumber)),
        "byDeviceType", BYTE_fmt(self.byDeviceType)),
        "byCameraID", BYTE_fmt(self.byCameraID)),
        "wSensorID", WORD_fmt(self.wSensorID)),
        "wSizeImgMem_MB", WORD_fmt(self.wSizeImgMem_MB)),
        "dwVerStarterFirmware", DWORD_fmt(self.dwVerStarterFirmware)),
        "dwVerRuntimeFirmware", DWORD_fmt(self.dwVerRuntimeFirmware)),
        "dwStatus", Enum_fmt(self.dwStatus)),
        "wTemperature", WORD_fmt(self.wTemperature)),
        "wLinkSpeed_Mb", WORD_fmt(self.wLinkSpeed_Mb)),
        "macDevice", UEYE_ETH_ADDR_MAC_fmt(self.macDevice)),
        "wComportOffset", WORD_fmt(self.wComportOffset)),
        "ipcfgPersistentIpCfg", UEYE_ETH_IP_CONFIGURATION_fmt(self.ipcfgPersistentIpCfg)),
        "ipcfgCurrentIpCfg", UEYE_ETH_IP_CONFIGURATION_fmt(self.ipcfgCurrentIpCfg)),
        "macPairedHost", UEYE_ETH_ADDR_MAC_fmt(self.macPairedHost)),
        "ipPairedHostIp", UEYE_ETH_ADDR_IPV4_fmt(self.ipPairedHostIp)),
        "ipAutoCfgIpRangeBegin", UEYE_ETH_ADDR_IPV4_fmt(self.ipAutoCfgIpRangeBegin)),
        "ipAutoCfgIpRangeEnd", UEYE_ETH_ADDR_IPV4_fmt(self.ipAutoCfgIpRangeEnd)),
        "abyUserSpace", ByteArray_fmt(self.abyUserSpace)))

DebugTypes ==
    {"UEYE_ETH_DEVICE_INFO_CONTROL", "UEYE_ETH_IP_CONFIGURATION",
     "UEYE_ETH_DEVICE_INFO_HEARTBEAT"}

DebugSamples(type) ==
    CASE type = "UEYE_ETH_DEVICE_INFO_CONTROL" -> UEYE_ETH_DEVICE_INFO_CONTROL_Samples
      [] type = "UEYE_ETH_IP_CONFIGURATION" -> UEYE_ETH_IP_CONFIGURATION_Samples
      [] type = "UEYE_ETH_DEVICE_INFO_HEARTBEAT" -> UEYE_ETH_DEVICE_INFO_HEARTBEAT_Samples

Debug_fmt(type, self) ==
    CASE type = "UEYE_ETH_DEVICE_INFO_CONTROL" -> UEYE_ETH_DEVICE_INFO_CONTROL_fmt(self)
      [] type = "UEYE_ETH_IP_CONFIGURATION" -> UEYE_ETH_IP_CONFIGURATION_fmt(self)
      [] type = "UEYE_ETH_DEVICE_INFO_HEARTBEAT" -> UEYE_ETH_DEVICE_INFO_HEARTBEAT_fmt(self)

InitDebugFmt ==
    /\ call = "Debug::fmt"
    /\ \E type \in DebugTypes : args \in {type} \X DebugSamples(type)

DebugFmt ==
    /\ pc = "ready" /\ call = "Debug::fmt"
    /\ ret' = Debug_fmt(args[1], args[2])
    /\ pc' = "done"
    /\ UNCHANGED <<call, args>>

-----------------------------------------------------------------------------
(* Specification                                                           *)

Init ==
    /\ pc = "ready"
    /\ ret = NoRet
    /\ \/ InitSplitVersion
       \/ InitGetVersionString
       \/ InitImgbufIterationInfoEq
       \/ InitAesPeakWhiteRangeEq
       \/ InitImgbufIterationInfoClone
       \/ InitAesPeakWhiteRangeClone
       \/ InitIpConfigurationEq
       \/ InitAutocfgIpSetupEq
       \/ InitDeviceInfoControlEq
       \/ InitDeviceInfoHeartbeatEq
       \/ InitAoiSequenceParamsClone
       \/ InitMultiIntegrationScopeClone
       \/ InitBuild
       \/ InitToWide
       \/ InitFromBool
       \/ InitVoltage
       \/ InitSizeArea
       \/ InitRectArea
       \/ InitOrdCmp
       \/ InitPartialCmp
       \/ InitDerivedEq
       \/ InitHash
       \/ InitDebugFmt

Next ==
    \/ SplitVersion
    \/ GetVersionString
    \/ ImgbufIterationInfoEq
    \/ AesPeakWhiteRangeEq
    \/ ImgbufIterationInfoClone
    \/ AesPeakWhiteRangeClone
    \/ IpConfigurationEq
    \/ AutocfgIpSetupEq
    \/ DeviceInfoControlEq
    \/ DeviceInfoHeartbeatEq
    \/ AoiSequenceParamsClone
    \/ MultiIntegrationScopeClone
    \/ Build
    \/ ToWide
    \/ FromBool
    \/ Voltage
    \/ SizeArea
    \/ RectArea
    \/ OrdCmp
    \/ PartialCmp
    \/ DerivedEq
    \/ Hash
    \/ DebugFmt

Spec == Init /\ [][Next]_vars

-----------------------------------------------------------------------------
(* Claims                                                                  *)

Returned(f) == pc = "done" /\ call = f

\* Bit i of the 32-bit two's complement pattern of v; bit 31 is the sign.
Bit(v, i) == IF i = 31 THEN (IF v < 0 THEN 1 ELSE 0) ELSE (v \div Pow2(i)) % 2

\* Bits hi..lo of v read as an unsigned number, bit lo weighing 1.
RECURSIVE BitField(_, _, _)
BitField(v, hi, lo) ==
    IF hi < lo THEN 0 ELSE Bit(v, lo) + 2 * BitField(v, hi, lo + 1)

\* C1: for every 32-bit signed version number v, negative ones included,
\* split_version(v) is (bits 31..24, bits 23..16, bits 15..0) of v, and
\* split_version(73404305) = (4, 96, 3985).
C1_SplitVersionFields ==
    Returned("split_version") =>
        /\ ret = <<BitField(args[1], 31, 24), BitField(args[1], 23, 16), BitField(args[1], 15, 0)>>
        /\ args[1] = ExampleVersion => ret = <<4, 96, 3985>>

\* A negative version number has been split, with bit 31 showing in major.
C1_Witness ==
    Returned("split_version") /\ args[1] < 0 /\ ret[1] >= 128 /\ ret[3] = 3985

\* The text between the dots of s: Fields(s) is the sequence of its
\* dot-separated parts.
RECURSIVE Fields(_)
Fields(s) ==
    IF \A i \in 1..Len(s) : s[i] # "."
    THEN <<s>>
    ELSE LET d == CHOOSE i \in 1..Len(s) : s[i] = "." /\ \A j \in 1..(i - 1) : s[j] # "."
         IN  <<SubSeq(s, 1, d - 1)>> \o Fields(SubSeq(s, d + 1, Len(s)))

DigitValue(c) == CHOOSE d \in 0..9 : Digits[d + 1] = c

IsDigit(c) == \E d \in 0..9 : Digits[d + 1] = c

RECURSIVE ParseNat(_)
ParseNat(s) ==
    IF Len(s) = 0 THEN 0
    ELSE 10 * ParseNat(SubSeq(s, 1, Len(s) - 1)) + DigitValue(s[Len(s)])

\* A decimal numeral without sign and without padding.
IsPlainDecimal(s) ==
    /\ Len(s) >= 1
    /\ \A i \in 1..Len(s) : IsDigit(s[i])
    /\ Len(s) > 1 => s[1] # "0"

\* C2: get_version_string(v) is the unpadded decimal rendering of the three
\* components of v joined by single dots in the order major.minor.build, and
\* get_version_string(73404305) = "4.96.3985".
C2_VersionString ==
    Returned("get_version_string") =>
        LET parts == Fields(ret)
            v == args[1]
        IN  /\ Len(parts) = 3
            /\ \A i \in 1..3 : IsPlainDecimal(parts[i])
            /\ ParseNat(parts[1]) = BitField(v, 31, 24)
            /\ ParseNat(parts[2]) = BitField(v, 23, 16)
            /\ ParseNat(parts[3]) = BitField(v, 15, 0)
            /\ v = ExampleVersion => ret = <<"4", ".", "9", "6", ".", "3", "9", "8", "5">>

\* The example of the documentation has been rendered.
C2_Witness ==
    /\ Returned("get_version_string")
    /\ args[1] = ExampleVersion
    /\ ret = <<"4", ".", "9", "6", ".", "3", "9", "8", "5">>

\* The fields of struct value x other than the reserved ones.
NonReserved(x, reservedFields) == DOMAIN x \ reservedFields

SameOn(a, b, fields) == \A f \in fields : a[f] = b[f]

\* C3: IMGBUF_ITERATION_INFO values are equal iff u32IterationID and
\* rangeImageID are equal, and AES_PEAK_WHITE_CONFIGURATION_RANGE values iff
\* rangeFrameSkip, rangeHysteresis and rangeReference are equal; these are
\* all the non-reserved fields, and the reserved bytes play no part.
C3_EqSkipsReserved ==
    /\ Returned("IMGBUF_ITERATION_INFO::eq") =>
        /\ NonReserved(args[1], {"bReserved"}) = {"u32IterationID", "rangeImageID"}
        /\ ret = SameOn(args[1], args[2], {"u32IterationID", "rangeImageID"})
    /\ Returned("AES_PEAK_WHITE_CONFIGURATION_RANGE::eq") =>
        /\ NonReserved(args[1], {"reserved"})
               = {"rangeFrameSkip", "rangeHysteresis", "rangeReference"}
        /\ ret = SameOn(args[1], args[2],
                        {"rangeFrameSkip", "rangeHysteresis", "rangeReference"})

\* Two values that differ in their reserved bytes alone have compared equal.
C3_Witness ==
    /\ Returned("IMGBUF_ITERATION_INFO::eq")
    /\ args[1].bReserved # args[2].bReserved
    /\ args[1].u32IterationID # 0
    /\ ret = TRUE

\* C4: the packed Ethernet structs compare equal iff their two public fields
\* are equal, whatever their reserved bytes hold: ipAddress and ipSubnetmask
\* (UEYE_ETH_IP_CONFIGURATION), ipAutoCfgIpRangeBegin and ipAutoCfgIpRangeEnd
\* (UEYE_ETH_AUTOCFG_IP_SETUP), dwDeviceID and dwControlStatus
\* (UEYE_ETH_DEVICE_INFO_CONTROL).
C4_EthEqIgnoresReserved ==
    /\ Returned("UEYE_ETH_IP_CONFIGURATION::eq") =>
        /\ NonReserved(args[1], {"reserved"}) = {"ipAddress", "ipSubnetmask"}
        /\ ret = SameOn(args[1], args[2], {"ipAddress", "ipSubnetmask"})
    /\ Returned("UEYE_ETH_AUTOCFG_IP_SETUP::eq") =>
        /\ NonReserved(args[1], {"reserved"})
               = {"ipAutoCfgIpRangeBegin", "ipAutoCfgIpRangeEnd"}
        /\ ret = SameOn(args[1], args[2], {"ipAutoCfgIpRangeBegin", "ipAutoCfgIpRangeEnd"})
    /\ Returned("UEYE_ETH_DEVICE_INFO_CONTROL::eq") =>
        /\ NonReserved(args[1], {"reserved_1", "reserved_2"})
               = {"dwDeviceID", "dwControlStatus"}
        /\ ret = SameOn(args[1], args[2], {"dwDeviceID", "dwControlStatus"})

\* Two IP configurations with the same non-zero subnet mask and different
\* reserved bytes have compared equal.
C4_Witness ==
    /\ Returned("UEYE_ETH_IP_CONFIGURATION::eq")
    /\ args[1].reserved # args[2].reserved
    /\ args[1].ipSubnetmask.by1 = 255
    /\ ret = TRUE

HeartbeatReservedFields ==
    {"reserved_1", "reserved_2", "reserved_4", "reserved_5", "reserved_6"}

\* The 19 non-reserved fields of UEYE_ETH_DEVICE_INFO_HEARTBEAT.
HeartbeatPublicFields ==
    {"abySerialNumber", "byDeviceType", "byCameraID", "wSensorID", "wSizeImgMem_MB",
     "dwVerStarterFirmware", "dwVerRuntimeFirmware", "dwStatus", "wTemperature",
     "wLinkSpeed_Mb", "macDevice", "wComportOffset", "ipcfgPersistentIpCfg",
     "ipcfgCurrentIpCfg", "macPairedHost", "ipPairedHostIp", "ipAutoCfgIpRangeBegin",
     "ipAutoCfgIpRangeEnd", "abyUserSpace"}

\* Equality of one heartbeat field, as == of the field's type has it: the two
\* IP configuration fields are equal when their addresses and masks are (C4),
\* every other field when its contents are.
HeartbeatFieldEqual(a, b, f) ==
    IF f \in {"ipcfgPersistentIpCfg", "ipcfgCurrentIpCfg"}
    THEN SameOn(a[f], b[f], {"ipAddress", "ipSubnetmask"})
    ELSE a[f] = b[f]

\* C5: two UEYE_ETH_DEVICE_INFO_HEARTBEAT values are equal iff each of the 19
\* non-reserved fields is equal; none of them is left out and none of
\* reserved_1, reserved_2, reserved_4, reserved_5, reserved_6 takes part.
C5_HeartbeatEq ==
    Returned("UEYE_ETH_DEVICE_INFO_HEARTBEAT::eq") =>
        /\ Cardinality(HeartbeatPublicFields) = 19
        /\ NonReserved(args[1], HeartbeatReservedFields) = HeartbeatPublicFields
        /\ ret = (\A f \in HeartbeatPublicFields : HeartbeatFieldEqual(args[1], args[2], f))

\* Two heartbeats that differ in wComportOffset alone have compared unequal.
C5_Witness ==
    /\ Returned("UEYE_ETH_DEVICE_INFO_HEARTBEAT::eq")
    /\ args[1].wComportOffset # args[2].wComportOffset
    /\ \A f \in (DOMAIN args[1]) \ {"wComportOffset"} : args[1][f] = args[2][f]
    /\ ret = FALSE

\* The step in which clone() of struct `type` runs copies every field but the
\* reserved one into the result and leaves the cloned value as it was.
CloneCopies(type, reservedField) ==
    (pc = "ready" /\ call = type \o "::clone" /\ pc' = "done") =>
        /\ args' = args
        /\ DOMAIN ret' = DOMAIN args[1]
        /\ \A f \in NonReserved(args[1], {reservedField}) : ret'[f] = args[1][f]

\* C6: for IMGBUF_ITERATION_INFO, AES_PEAK_WHITE_CONFIGURATION_RANGE,
\* AOI_SEQUENCE_PARAMS and IS_MULTI_INTEGRATION_SCOPE, x.clone().f = x.f for
\* every value x and every non-reserved field f, and the call leaves x
\* unchanged.
C6_CloneCopiesFields ==
    [][/\ CloneCopies("IMGBUF_ITERATION_INFO", "bReserved")
       /\ CloneCopies("AES_PEAK_WHITE_CONFIGURATION_RANGE", "reserved")
       /\ CloneCopies("AOI_SEQUENCE_PARAMS", "byReserved")
       /\ CloneCopies("IS_MULTI_INTEGRATION_SCOPE", "m_bReserved")]_vars

\* A value with a gain set has been cloned: the clone has the gain, and
\* reserved bytes that are not those of the original.
C6_Witness ==
    /\ Returned("AOI_SEQUENCE_PARAMS::clone")
    /\ args[1].s32Gain # 0
    /\ ret.s32Gain = args[1].s32Gain
    /\ ret.byReserved # args[1].byReserved

\* The values of the directives with key `key` among those printed, in order.
RECURSIVE Directives(_, _)
Directives(stdout, key) ==
    IF stdout = <<>> THEN <<>>
    ELSE (IF Head(stdout)[1] = key THEN <<Head(stdout)[2]>> ELSE <<>>)
         \o Directives(Tail(stdout), key)

\* The text of an environment variable ("" when it is not set).
EnvText(v) == IF v = <<>> THEN <<>> ELSE v[1]

IsWindowsTarget == Contains(EnvText(args[1]), S_windows)
IsLinuxTarget == ~IsWindowsTarget /\ Contains(EnvText(args[1]), S_linux)

\* C7: a TARGET containing "windows" gives exactly one link directive,
\* dylib=uEye_api, also when it contains "linux" too; otherwise a TARGET
\* containing "linux" gives, for arch x86_64, exactly dylib=ueye_api64 with
\* search paths /usr/lib and /opt/ids/ueye/lib/x86_64-linux-gnu, and for arch
\* x86 exactly dylib=ueye_api with search path /usr/lib; each of these runs
\* succeeds and also prints rerun-if-changed=build.rs.
C7_BuildDispatch ==
    Returned("build::main") =>
        /\ IsWindowsTarget =>
            /\ ret.panic = NoPanic
            /\ Directives(ret.stdout, "rustc-link-lib") = <<"dylib=uEye_api">>
            /\ Directives(ret.stdout, "rerun-if-changed") = <<"build.rs">>
        /\ (IsLinuxTarget /\ args[2] = Ok(S_x86_64)) =>
            /\ ret.panic = NoPanic
            /\ Directives(ret.stdout, "rustc-link-lib") = <<"dylib=ueye_api64">>
            /\ Directives(ret.stdout, "rustc-link-search")
                   = <<"native=/usr/lib", "native=/opt/ids/ueye/lib/x86_64-linux-gnu">>
            /\ Directives(ret.stdout, "rerun-if-changed") = <<"build.rs">>
        /\ (IsLinuxTarget /\ args[2] = Ok(S_x86)) =>
            /\ ret.panic = NoPanic
            /\ Directives(ret.stdout, "rustc-link-lib") = <<"dylib=ueye_api">>
            /\ Directives(ret.stdout, "rustc-link-search") = <<"native=/usr/lib">>
            /\ Directives(ret.stdout, "rerun-if-changed") = <<"build.rs">>
        /\ ret.panic = NoPanic => Directives(ret.stdout, "rerun-if-changed") = <<"build.rs">>

\* A TARGET naming linux before windows, with arch x86_64, has been built
\* as a Windows target.
C7_Witness ==
    /\ Returned("build::main")
    /\ IsWindowsTarget
    /\ Contains(EnvText(args[1]), S_linux \o <<"-">> \o S_windows)
    /\ args[2] = Ok(S_x86_64)
    /\ Directives(ret.stdout, "rustc-link-lib") = <<"dylib=uEye_api">>

\* C8: the build script panics, having printed no directive, when TARGET
\* (unset counting as empty) contains neither "windows" nor "linux", and when
\* it contains "linux" but CARGO_CFG_TARGET_ARCH is unset or is neither
\* "x86_64" nor "x86".
C8_BuildUnsupported ==
    Returned("build::main") =>
        /\ (~IsWindowsTarget /\ ~IsLinuxTarget) =>
               (ret.panic # NoPanic /\ ret.stdout = <<>>)
        /\ (IsLinuxTarget /\ args[2] \notin {Ok(S_x86_64), Ok(S_x86)}) =>
               (ret.panic # NoPanic /\ ret.stdout = <<>>)

\* A linux TARGET with an unset architecture has panicked without output.
C8_Witness ==
    /\ Returned("build::main")
    /\ IsLinuxTarget
    /\ args[2] = Unset
    /\ ret.panic # NoPanic
    /\ ret.stdout = <<>>

\* The chars that a sequence of UTF-16 code units spells: a unit outside the
\* surrogate range is a char, a high surrogate takes the low one after it.
RECURSIVE DecodeUtf16(_)
DecodeUtf16(units) ==
    IF units = <<>> THEN <<>>
    ELSE IF Head(units) >= 55296 /\ Head(units) < 56320 /\ Len(units) >= 2
    THEN <<65536 + (Head(units) - 55296) * 1024 + (units[2] - 56320)>>
         \o DecodeUtf16(Tail(Tail(units)))
    ELSE <<Head(units)>> \o DecodeUtf16(Tail(units))

\* How many wide code units a string takes: one per char, but two on Windows
\* for a char beyond U+FFFF.
RECURSIVE WideLen(_, _)
WideLen(s, os) ==
    IF s = <<>> THEN 0
    ELSE (IF os = "windows" /\ Head(s) > 65535 THEN 2 ELSE 1) + WideLen(Tail(s), os)

\* C9: to_wide(s) is null-terminated: its length is the number of wide code
\* units of s plus one, its last element is 0, the elements before are the
\* code units of s in order (off Windows the scalar value of each char, on
\* Windows the UTF-16 units spelling s), and when s has no NUL the only 0 is
\* the last element.
C9_ToWideTerminated ==
    Returned("to_wide") =>
        LET s == args[1]
            os == args[2]
            n == Len(ret)
        IN  /\ n = WideLen(s, os) + 1
            /\ ret[n] = 0
            /\ os # "windows" => \A i \in 1..Len(s) : ret[i] = s[i]
            /\ os = "windows" =>
                /\ \A i \in 1..n : ret[i] \in 0..65535
                /\ DecodeUtf16(SubSeq(ret, 1, n - 1)) = s
            /\ (\A i \in 1..Len(s) : s[i] # 0) => \A i \in 1..(n - 1) : ret[i] # 0

\* A string with a char beyond U+FFFF and no NUL has been converted for
\* Windows: it took more units than chars.
C9_Witness ==
    /\ Returned("to_wide")
    /\ args[2] = "windows"
    /\ Len(args[1]) >= 2
    /\ \A i \in 1..Len(args[1]) : args[1][i] # 0
    /\ Len(ret) > Len(args[1]) + 1
    /\ ret[Len(ret)] = 0

\* The variants the conversions are to give for false and for true.
OnOffVariants ==
    [BLACKLEVEL_MODES |-> <<"IS_AUTO_BLACKLEVEL_OFF", "IS_AUTO_BLACKLEVEL_ON">>,
     LUT_ENABLED |-> <<"IS_LUT_DISABLED", "IS_LUT_ENABLED">>,
     FLASH_AUTO_FREERUN |-> <<"IS_FLASH_AUTO_FREERUN_OFF", "IS_FLASH_AUTO_FREERUN_ON">>,
     CONFIGURATION_SEL_OPEN_MP |-> <<"IS_CONFIG_OPEN_MP_DISABLE", "IS_CONFIG_OPEN_MP_ENABLE">>,
     CONFIGURATION_SEL_TRUSTED_PAIRING |->
         <<"IS_CONFIG_TRUSTED_PAIRING_OFF", "IS_CONFIG_TRUSTED_PAIRING_ON">>,
     CONFIGURATION_SEL_IMAGE_MEMORY_COMPATIBILITY_MODE |->
         <<"IS_CONFIG_IMAGE_MEMORY_COMPATIBILITY_MODE_OFF",
           "IS_CONFIG_IMAGE_MEMORY_COMPATIBILITY_MODE_ON">>,
     CONFIGURATION_SEL_IPO |-> <<"IS_CONFIG_IPO_NOT_ALLOWED", "IS_CONFIG_IPO_ALLOWED">>,
     CONFIGURATION_SEL_ETH_CONFIGURATION |->
         <<"IS_CONFIG_ETH_CONFIGURATION_MODE_OFF", "IS_CONFIG_ETH_CONFIGURATION_MODE_ON">>]

\* C10: every From<bool> of an on/off enum maps true to the enabling variant,
\* whose discriminant is 1, and false to the disabling variant, whose
\* discriminant is 0; true and false never give the same variant.
C10_FromBool ==
    Returned("From<bool>::from") =>
        LET enum == args[1]
            value == args[2]
        IN  /\ ret = OnOffVariants[enum][IF value THEN 2 ELSE 1]
            /\ Discriminant[ret] = (IF value THEN 1 ELSE 0)
            /\ ret # From_bool(enum, ~value)

\* true has been converted to IS_FLASH_AUTO_FREERUN_ON.
C10_Witness ==
    /\ Returned("From<bool>::from")
    /\ args[1] = "FLASH_AUTO_FREERUN"
    /\ args[2] = TRUE
    /\ ret = "IS_FLASH_AUTO_FREERUN_ON"


(* C11: voltage() returns the nominal voltage of the profile: 5.0 for      *)
(* 5V_LOW_POWER and 5V_HIGH_POWER, 9.0 for 9V, 12.0 for 12V, 14.8 for      *)
(* 14V8, 15.0 for 15V, and 0.0 for INVALID and for every other bit         *)
(* pattern (here in tenths of a volt).                                     *)
NominalVoltage(profile) ==
    CASE profile \in {IS_POWER_DELIVERY_PROFILE_5V_LOW_POWER,
                      IS_POWER_DELIVERY_PROFILE_5V_HIGH_POWER} -> 50
      [] profile = IS_POWER_DELIVERY_PROFILE_9V -> 90
      [] profile = IS_POWER_DELIVERY_PROFILE_12V -> 120
      [] profile = IS_POWER_DELIVERY_PROFILE_14V8 -> 148
      [] profile = IS_POWER_DELIVERY_PROFILE_15V -> 150
      [] OTHER -> 0

C11_VoltageNominal ==
    Returned("IS_POWER_DELIVERY_PROFILES::voltage")
        => ret = NominalVoltage(args[1])


(* C12: IS_RECT::area() returns s32Width * s32Height for every IS_RECT     *)
(* (whenever that product is an INT), whatever s32X and s32Y are, and it   *)
(* agrees with IS_SIZE_2D::area() of the size with the same width and      *)
(* height.                                                                 *)
SizeOf(rect) == [s32Width |-> rect.s32Width, s32Height |-> rect.s32Height]

C12_RectArea ==
    Returned("IS_RECT::area") =>
        /\ ret = IS_SIZE_2D_area(SizeOf(args[1]), args[2])
        /\ MulFits(args[1].s32Width, args[1].s32Height) =>
              /\ ~ret.panic
              /\ ret.value = args[1].s32Width * args[1].s32Height



(* Exact integers for the measures: <<h, l>> stands for h * 2^16 + l with  *)
(* 0 <= l < 2^16, so differences of two 32-bit numbers are represented     *)
(* without leaving the range of 32-bit integers.                           *)
BigOfINT(x) == <<Hi(x), Lo(x)>>
BigOfUINT(x) == <<Hi(x) % HALF, Lo(x)>>
BigSub(x, y) == <<x[1] - y[1] - (IF x[2] < y[2] THEN 1 ELSE 0), (x[2] - y[2]) % HALF>>
BigAbs(x) == IF x[1] < 0 THEN BigSub(<<0, 0>>, x) ELSE x
BigCmp(x, y) ==
    IF x = y THEN "Equal"
    ELSE IF x[1] < y[1] \/ (x[1] = y[1] /\ x[2] < y[2]) THEN "Less"
    ELSE "Greater"

Reverse(ordering) ==
    CASE ordering = "Less" -> "Greater"
      [] ordering = "Greater" -> "Less"
      [] OTHER -> ordering

(* Comparison of the fractions p / q and r / s of positive integers.       *)
RECURSIVE CmpFrac(_, _, _, _)
CmpFrac(p, q, r, s) ==
    IF p \div q # r \div s THEN INT_cmp(p \div q, r \div s)
    ELSE IF p % q = 0 /\ r % s = 0 THEN "Equal"
    ELSE IF p % q = 0 THEN "Less"
    ELSE IF r % s = 0 THEN "Greater"
    ELSE Reverse(CmpFrac(q, p % q, s, r % s))

Sign(x) == IF x < 0 THEN -1 ELSE IF x = 0 THEN 0 ELSE 1
Abs(x) == IF x < 0 THEN -x ELSE x

(* Comparison of the exact products a * b and c * d.                       *)
ProductCmp(a, b, c, d) ==
    LET s1 == Sign(a) * Sign(b)
        s2 == Sign(c) * Sign(d)
    IN  IF s1 # s2 THEN INT_cmp(s1, s2)
        ELSE IF s1 = 0 THEN "Equal"
        ELSE IF s1 > 0 THEN CmpFrac(Abs(a), Abs(c), Abs(d), Abs(b))
        ELSE Reverse(CmpFrac(Abs(a), Abs(c), Abs(d), Abs(b)))

(* The integer comparison of the measures of a and b: max - min for the    *)
(* ranges, |last - first| and |sMax - sMin|, and the area, s32Width *      *)
(* s32Height, for IS_SIZE_2D and IS_RECT.                                  *)
MeasureCmp(type, a, b) ==
    CASE type = "IS_RANGE_U32" ->
            BigCmp(BigSub(BigOfUINT(a.u32Max), BigOfUINT(a.u32Min)),
                   BigSub(BigOfUINT(b.u32Max), BigOfUINT(b.u32Min)))
      [] type = "IS_RANGE_S32" ->
            BigCmp(BigSub(BigOfINT(a.s32Max), BigOfINT(a.s32Min)),
                   BigSub(BigOfINT(b.s32Max), BigOfINT(b.s32Min)))
      [] type = "ID_RANGE" ->
            BigCmp(BigAbs(BigSub(BigOfINT(a.s32Last), BigOfINT(a.s32First))),
                   BigAbs(BigSub(BigOfINT(b.s32Last), BigOfINT(b.s32First))))
      [] type = "AUTOFOCUS_LIMIT" ->
            BigCmp(BigAbs(BigSub(BigOfINT(a.sMax), BigOfINT(a.sMin))),
                   BigAbs(BigSub(BigOfINT(b.sMax), BigOfINT(b.sMin))))
      [] type \in {"IS_SIZE_2D", "IS_RECT"} ->
            ProductCmp(a.s32Width, a.s32Height, b.s32Width, b.s32Height)

(* C13: the orderings compare the measure only.  a.cmp(b) is the integer   *)
(* comparison of the two measures, and partial_cmp(a, b) is always Some    *)
(* of that comparison (hence Some(a.cmp(b)) where both are implemented).   *)
C13_OrderByMeasure ==
    /\ Returned("Ord::cmp") =>
          ret = [panic |-> FALSE, value |-> MeasureCmp(args[1], args[2], args[3])]
    /\ Returned("PartialOrd::partial_cmp") =>
          ret = [panic |-> FALSE, value |-> Some(MeasureCmp(args[1], args[2], args[3]))]


(* C14: ordering is consistent with equality on IS_RANGE_U32,              *)
(* IS_RANGE_S32, IS_SIZE_2D, IS_RECT and ID_RANGE: a.cmp(b) is Equal if    *)
(* and only if a == b, the derived field-by-field equality.                *)
C14_OrdConsistentWithEq ==
    Returned("Ord::cmp") =>
        (ret = [panic |-> FALSE, value |-> "Equal"])
            <=> PartialEq_eq(args[1], args[2], args[3])


(* The writes hash added to a hasher that had received `before`.           *)
Fed(after, before) == SubSeq(after, Len(before) + 1, Len(after))

HashEq(type, a, b) ==
    CASE type = "IMGBUF_ITERATION_INFO" -> IMGBUF_ITERATION_INFO_eq(a, b)
      [] type = "UEYE_ETH_ADDR_IPV4" -> UEYE_ETH_ADDR_IPV4_eq(a, b)

(* C15: Hash is consistent with equality on IMGBUF_ITERATION_INFO and on   *)
(* UEYE_ETH_ADDR_IPV4: every b with a == b feeds the hasher the same       *)
(* sequence of values as a; and what IMGBUF_ITERATION_INFO feeds is its    *)
(* iteration id and the two ids of its range, never its reserved bytes.    *)
C15_HashConsistentWithEq ==
    Returned("Hash::hash") =>
        LET type == args[1]
            a == args[2]
            fed == Fed(ret, args[3])
        IN  /\ SubSeq(ret, 1, Len(args[3])) = args[3]
            /\ \A b \in HashSamples(type) :
                  HashEq(type, a, b) => Fed(Hash_hash(type, b, args[3]), args[3]) = fed
            /\ type = "IMGBUF_ITERATION_INFO" =>
                  [i \in 1..Len(fed) |-> fed[i][2]]
                      = <<a.u32IterationID, a.rangeImageID.s32First,
                          a.rangeImageID.s32Last>>

C15_Witness ==
    /\ Returned("Hash::hash")
    /\ args[1] = "IMGBUF_ITERATION_INFO"
    /\ args[2].bReserved # Fill(IMGBUF_RESERVED_LEN, 0)
    /\ args[2].u32IterationID # 0
    /\ \E b \in IMGBUF_ITERATION_INFO_Samples :
          /\ IMGBUF_ITERATION_INFO_eq(args[2], b)
          /\ b.bReserved # args[2].bReserved
    /\ Len(ret) = Len(args[3]) + 3


(* The non-reserved fields of the three structs, in declaration order.     *)
DeclaredFields(type) ==
    CASE type = "UEYE_ETH_DEVICE_INFO_CONTROL" -> <<"dwDeviceID", "dwControlStatus">>
      [] type = "UEYE_ETH_IP_CONFIGURATION" -> <<"ipAddress", "ipSubnetmask">>
      [] type = "UEYE_ETH_DEVICE_INFO_HEARTBEAT" ->
            <<"abySerialNumber", "byDeviceType", "byCameraID", "wSensorID",
              "wSizeImgMem_MB", "dwVerStarterFirmware", "dwVerRuntimeFirmware",
              "dwStatus", "wTemperature", "wLinkSpeed_Mb", "macDevice",
              "wComportOffset", "ipcfgPersistentIpCfg", "ipcfgCurrentIpCfg",
              "macPairedHost", "ipPairedHostIp", "ipAutoCfgIpRangeBegin",
              "ipAutoCfgIpRangeEnd", "abyUserSpace">>

DebugReservedFields(type) ==
    CASE type = "UEYE_ETH_DEVICE_INFO_CONTROL" -> {"reserved_1", "reserved_2"}
      [] type = "UEYE_ETH_IP_CONFIGURATION" -> {"reserved"}
      [] type = "UEYE_ETH_DEVICE_INFO_HEARTBEAT" -> HeartbeatReservedFields

(* a and b differ in reserved bytes at most: their own reserved arrays and *)
(* those of the IP configurations inside a heartbeat.                      *)
OnlyReservedDiffers(type, a, b) ==
    IF type = "UEYE_ETH_DEVICE_INFO_HEARTBEAT"
    THEN \A f \in HeartbeatPublicFields : HeartbeatFieldEqual(a, b, f)
    ELSE SameOn(a, b, NonReserved(a, DebugReservedFields(type)))

PrintedNames(out) == [i \in 1..Len(out.fields) |-> out.fields[i][1]]

(* C16: the Debug output of UEYE_ETH_DEVICE_INFO_CONTROL,                  *)
(* UEYE_ETH_IP_CONFIGURATION and UEYE_ETH_DEVICE_INFO_HEARTBEAT lists the  *)
(* non-reserved fields only, each once and in declaration order (2, 2 and  *)
(* 19 fields), and two values that differ only in reserved bytes print     *)
(* identically.                                                            *)
C16_DebugSkipsReserved ==
    Returned("Debug::fmt") =>
        LET type == args[1]
            declared == DeclaredFields(type)
        IN  /\ {declared[i] : i \in 1..Len(declared)}
                  = NonReserved(args[2], DebugReservedFields(type))
            /\ Len(declared) = Cardinality(NonReserved(args[2], DebugReservedFields(type)))
            /\ type = "UEYE_ETH_DEVICE_INFO_HEARTBEAT" => Len(declared) = 19
            /\ ret.name = type
            /\ PrintedNames(ret) = declared
            /\ \A b \in DebugSamples(type) :
                  OnlyReservedDiffers(type, args[2], b) => Debug_fmt(type, b) = ret

(* A heartbeat has been printed that has a camera id and non-zero         *)
(* reserved_5 bytes, or a current IP configuration with non-zero reserved  *)
(* bytes of its own, and another sample differs from it in reserved bytes  *)
(* only.                                                                   *)
C16_Witness ==
    /\ Returned("Debug::fmt")
    /\ args[1] = "UEYE_ETH_DEVICE_INFO_HEARTBEAT"
    /\ Len(ret.fields) = 19
    /\ \/ /\ args[2].byCameraID = 1
          /\ args[2].reserved_5 # Fill(HEARTBEAT_RESERVED_5_LEN, 0)
       \/ args[2].ipcfgCurrentIpCfg.reserved # Fill(IP_CONFIGURATION_RESERVED_LEN, 0)
    /\ \E b \in UEYE_ETH_DEVICE_INFO_HEARTBEAT_Samples :
          b # args[2] /\ OnlyReservedDiffers(args[1], args[2], b)

====
